---- MODULE Spec2Model ----
(***************************************************************************)
(* A model of the coordination layer of the Movement full node:            *)
(*   - the DA sequencer (light-node/src/v1/sequencer.rs): batch_write,     *)
(*     the block builder, the block publisher and its grouping-heuristic   *)
(*     stack, the wrapped blocks;                                          *)
(*   - the full-node driver (suzuka-full-node/src/partial.rs): the DA      *)
(*     stream consumer and the commitment-event task.                      *)
(* The sequencer is checked under Spec, the driver under SpecNode and      *)
(* SpecExecutor.                                                           *)
(***************************************************************************)
EXTENDS Integers, Sequences, FiniteSets, TLC

VARIABLES
    \* ---- sequencer (sequencer.rs) ----
    mempool,        \* memseq: the FIFO of published transactions
    nextTx,         \* next fresh transaction id a client will write
    writes,         \* history: the successful batch_write calls, [txs, height]
    builderPc,      \* "wait" (in wait_for_next_block) | "send" (in sender.send)
    builderBlock,   \* the block the builder holds while in "send"
    tickLog,        \* the uid and the block of each tick_build_blocks that got Ok from memseq
    built,          \* history: every block wait_for_next_block returned, in order
    chan,           \* the builder-to-publisher mpsc channel
    pubPc,          \* "read" | "distribute" | "callback"
    batch,          \* read_blocks' local Vec<Block>, then the batch being submitted
    dist,           \* the distribution the heuristic stack works on
    newDist,        \* the outcomes the callback returned so far in this pass
    idx,            \* index (1-based) of the next group handed to the callback
    flag,           \* the sticky metadata flag of the callback
    skipped,        \* SkipFor's count of invocations it let pass through
    da,             \* the DA log: the blobs sequenced so far, [height, data]
    daHead,         \* the DA head height
    submitCalls,    \* history: every submit_blocks call, [blocks, ok, pass, group]
    passNo,         \* number of the current pass of the stack over this batch
    restarts,       \* how often run_block_proposer restarted its two tasks
    writeCall,      \* the batch_write call in flight between reading the head and publishing
    rpcErrors,      \* history: the calls of the service that failed, [rpc, cause, status, ..]
    readPc,         \* one tick_publish_blobs in time: "recv" | "submit" | "returned"
    readClock,      \* steps of time since read_blocks started
    readBlocks,     \* the arrival steps of the blocks read_blocks pushed
    blob_response,  \* the BlobResponse handed to to_sequenced_blob_block
    sequenced,      \* what to_sequenced_blob_block returned for it
    resequenced,    \* what to_sequenced_blob_block returned for its own Ok result
    \* ---- full-node driver (partial.rs) ----
    stream,         \* the blobs the DA stream has yielded so far
    readerPc,       \* "next" | "executed" | "ended" | "failed_blob" | "failed_metadata" | "failed_execute" | "failed_post"
    executeCalls,   \* history: the blocks passed to execute_block_opt
    postCalls,      \* history: the commitments passed to post_block_commitment
    pending,        \* the commitment execute_block_opt returned, not yet posted
    events,         \* the events taken from the commitment-event stream
    eventsPc,       \* "run" | "failed" | "ended"
    finalizeCalls,  \* history: the heights passed to set_finalized_block_height
    finalized,      \* the executor's finalized height (-1: none)
    txChannel,      \* the in-process channel of transactions the writer drains
    nextNodeTx,     \* next fresh transaction the executor's API will put on the channel
    writerPc,       \* "run" | "failed_serialize" | "failed_write"
    daBatches,      \* history: every batch_write request of the writer, [blobs, ok]
    ticks,          \* history: every call of tick_write_transactions_to_da,
                    \* [txs received, locked: client lock taken, batch: index in daBatches or 0]
    winPc,          \* one tick in time: "recv" (in timeout(recv)) | "done" (left the loop)
    winClock,       \* steps of time since the tick started
    recvSince,      \* the step at which the recv in progress started
    winBatch,       \* the arrival steps of the transactions pushed to the tick's Vec
    lockHolder,     \* the write side of light_node_client: "free" | "reader" | "writer"
    readerLockPc,   \* "start" | "want" | "opening" | "consuming" | "ended" | "failed"
    writerLockPc,   \* "collect" | "want" | "writing" | "failed"
    lockItems,      \* stream items the reader has consumed
    lockWrites,     \* batch_write calls the writer has completed
    executorPc,     \* run_executor: "running" | "failed"
    \* ---- GC containers (util/collections/src/garbage) ----
    value_ttl_ms,        \* GcCounter: milliseconds a value is valid for
    gc_slot_duration_ms, \* GcCounter: milliseconds of one slot
    value_lifetimes,     \* GcCounter: the BTreeMap slot -> count
    overflowChecks,      \* the build's overflow-checks setting (debug: TRUE, release: FALSE)
    counterPc,           \* "ready" | "panicked"
    incremented,         \* history: how many increment(t) calls were made, per time t
    honored,             \* history: the decrement() calls that lowered a bucket
    lastGc,              \* history: the time passed to the last gc that returned (-1: none)
    collected,           \* history: the units held by the slots gc removed, over all gc calls
    set_lifetimes,       \* GcSet: the BTreeMap slot -> set of values (value_lifetimes of set.rs)
    setPc,               \* "ready" | "panicked"
    lastWrite,           \* history, per value: its last insert or remove_value, [op, t]
    gcSince,             \* history, per value: least and greatest time passed to the gc
                         \* calls that returned since its last insert, [lo, hi]
    setLastGc,           \* history: the time passed to the last GcSet::gc that returned (-1: none)
    slidFrom,            \* history, per value: the slot its last insert took it out of (-1: none)
    setWrites            \* history: the number of insert and remove_value calls made

rpcVars == <<writeCall, rpcErrors>>
readVars == <<readPc, readClock, readBlocks>>
convVars == <<blob_response, sequenced, resequenced>>
seqVars == <<mempool, nextTx, writes, builderPc, builderBlock, tickLog, built, chan, pubPc,
             batch, dist, newDist, idx, flag, skipped, da, daHead, submitCalls,
             passNo, restarts, rpcVars, readVars, convVars>>
windowVars == <<winPc, winClock, recvSince, winBatch>>
lockVars == <<lockHolder, readerLockPc, writerLockPc, lockItems, lockWrites>>
writerVars == <<txChannel, nextNodeTx, writerPc, daBatches, ticks, windowVars, lockVars>>
counterVars == <<value_lifetimes, counterPc, incremented, honored, lastGc, collected>>
setVars == <<set_lifetimes, setPc, lastWrite, gcSince, setLastGc, slidFrom, setWrites>>
gcVars == <<value_ttl_ms, gc_slot_duration_ms, overflowChecks, counterVars, setVars>>
nodeVars == <<stream, readerPc, executeCalls, postCalls, pending, events, eventsPc,
              finalizeCalls, finalized, writerVars, executorPc, gcVars>>
vars == <<seqVars, nodeVars>>

(***************************************************************************)
(* Bounds of the model.                                                    *)
(***************************************************************************)
\* transactions the clients write in a run
MaxTx == 3
\* blobs of one batch_write request
MaxBatch == 2
\* memseq's max block size (a configuration value), in transactions
MaxBlockSize == 2
\* restarts of the builder/publisher pair that a run follows
MaxRestarts == 1
\* transactions waiting in the mempool when a run of the builder alone starts
MaxBacklog == 10
\* ticks of the builder that find the mempool empty
MaxNoneTicks == 2

(***************************************************************************)
(* Program constants.                                                      *)
(***************************************************************************)
\* FirstFitBinpacking::boxed(1_700_000)
Capacity == 1700000
\* Splitting::boxed(2)
SplitFactor == 2
\* SkipFor::boxed(1, ..)
SkipCount == 1
\* tokio::sync::mpsc::channel(2 ^ 10): ^ is bitwise xor in Rust
ChannelCapacity == 8
\* const LOGGING_UID: AtomicU64 = AtomicU64::new(0)
LOGGING_UID == 0

\* The byte sizes a transaction contributes to a compressed blob.  Two small
\* transactions fit one group, two large ones do not, a small and a large do.
TxSizes == {400000, 900000}

NoBlock == [transactions |-> <<>>, none |-> TRUE]

\* no batch_write call is in flight
NoCall == [blobs |-> <<>>, none |-> TRUE]

Min(a, b) == IF a <= b THEN a ELSE b

RECURSIVE SumSizes(_)
SumSizes(txs) == IF txs = <<>> THEN 0 ELSE Head(txs).size + SumSizes(Tail(txs))

RECURSIVE Flatten(_)
Flatten(ss) == IF ss = <<>> THEN <<>> ELSE Head(ss) \o Flatten(Tail(ss))

Range(s) == {s[i] : i \in 1..Len(s)}

(***************************************************************************)
(* Blocks and wrapped blocks (sequencer.rs, mod block).                    *)
(***************************************************************************)
\* movement_types::block::Block, reduced to its ordered transactions (its id
\* is a digest of its content)
Block(txs) == [transactions |-> txs]

\* bcs::to_bytes(&block)
BcsEncode(block) == [codec |-> "bcs", value |-> block]

\* zstd::encode_all(bytes, 0)
ZstdCompress(bytes) == [codec |-> "zstd", value |-> bytes]

\* zstd decoding: the inverse of ZstdCompress on its image
ZstdDecompress(data) == IF data.codec = "zstd" THEN data.value ELSE [codec |-> "garbage"]

\* blob.data.len(): the transactions of the encoded block make up the bytes
DataLen(data) == SumSizes(data.value.value.transactions)

\* the block a blob's bytes decode to
BlobBlock(blob) == blob.data.value.value

\* WrappedBlock::try_new: serialize, compress, wrap in a blob
WrappedBlockTryNew(block) ==
    [block |-> block, blob |-> [data |-> ZstdCompress(BcsEncode(block))]]

\* BinpackingWeighted::weight
Weight(wb) == DataLen(wb.blob.data)

\* Vec<Transaction>::split(factor): factor contiguous chunks, in order, the
\* first (len % factor) of them one longer
ChunkLen(len, factor, i) == (len \div factor) + (IF i <= len % factor THEN 1 ELSE 0)

RECURSIVE ChunkStart(_, _, _)
ChunkStart(len, factor, i) ==
    IF i = 1 THEN 1 ELSE ChunkStart(len, factor, i - 1) + ChunkLen(len, factor, i - 1)

\* Block::split(factor)
BlockSplit(block, factor) ==
    LET n == Len(block.transactions)
    IN  [i \in 1..factor |->
            Block(SubSeq(block.transactions,
                         ChunkStart(n, factor, i),
                         ChunkStart(n, factor, i) + ChunkLen(n, factor, i) - 1))]

\* a block is splittable by factor when it has at least that many transactions
Splittable(block, factor) == Len(block.transactions) >= factor

\* WrappedBlock::split: every sub-block is paired with a clone of self.blob
WrappedBlockSplit(wb, factor) ==
    LET subs == BlockSplit(wb.block, factor)
    IN  [i \in 1..factor |-> [block |-> subs[i], blob |-> wb.blob]]

(***************************************************************************)
(* to_sequenced_blob_block (sequencer.rs): a BlobResponse is an optional   *)
(* blob type, a blob type a variant around a Blob.                         *)
(***************************************************************************)
\* the values 0..MaxBlobField each field of a Blob may take
MaxBlobField == 1

\* Blob { blob_id, data, height, timestamp }
Blobs == [blob_id : 0..MaxBlobField, data : 0..MaxBlobField,
          height : 0..MaxBlobField, timestamp : 0..MaxBlobField]

BlobVariants == {"PassedThroughBlob", "SequencedBlobIntent", "SequencedBlobBlock"}

\* Option<blob_response::BlobType>
NoBlobType == [some |-> FALSE]
SomeBlobType(variant, blob) == [some |-> TRUE, variant |-> variant, blob |-> blob]

\* BlobResponse { blob_type }
BlobResponses ==
    {[blob_type |-> NoBlobType]}
        \cup {[blob_type |-> SomeBlobType(v, b)] : v \in BlobVariants, b \in Blobs}

ConvOk(response) == [ok |-> TRUE, value |-> response]
ConvErr(message) == [ok |-> FALSE, error |-> message]

\* a conversion that hands a PassedThroughBlob back as it came
ToSequencedKeepingPassedThrough(response) ==
    IF ~response.blob_type.some THEN ConvErr("No blob type")
    ELSE IF response.blob_type.variant \in {"PassedThroughBlob", "SequencedBlobBlock"}
    THEN ConvOk(response)
    ELSE ConvErr("Invalid blob type")

\* LightNodeV1::to_sequenced_blob_block(blob_response)
to_sequenced_blob_block(response) ==
    IF ~response.blob_type.some THEN ConvErr("No blob type")
    ELSE IF response.blob_type.variant = "PassedThroughBlob"
    THEN ConvOk([blob_type |-> SomeBlobType("SequencedBlobBlock", response.blob_type.blob)])
    ELSE IF response.blob_type.variant = "SequencedBlobBlock"
    THEN ConvOk([blob_type |-> SomeBlobType("SequencedBlobBlock", response.blob_type.blob)])
    ELSE ConvErr("Invalid blob type")

\* no response is at hand, the function was not called
NoResponse == [blob_type |-> NoBlobType, none |-> TRUE]
NotCalled == [ok |-> FALSE, called |-> FALSE]

NoConversion ==
    /\ blob_response = NoResponse
    /\ sequenced = NotCalled
    /\ resequenced = NotCalled

(***************************************************************************)
(* Grouping outcomes and the heuristic stack (movement_algs).              *)
(***************************************************************************)
Apply(x) == [label |-> "Apply", item |-> x]
Failure(x) == [label |-> "Failure", item |-> x]
Success == [label |-> "Success", item |-> NoBlock]

\* GroupingOutcome::new_apply
NewApply(items) == [i \in 1..Len(items) |-> Apply(items[i])]

\* GroupingOutcome::new_all_success
NewAllSuccess(n) == [i \in 1..n |-> Success]

\* GroupingOutcome::new_apply_distribution: one group holding every item
NewApplyDistribution(items) == <<NewApply(items)>>

\* GroupingOutcome::into_original: the items that still carry a value
IntoOriginal(group) ==
    LET keep == SelectSeq(group, LAMBDA o : o.label # "Success")
    IN  [i \in 1..Len(keep) |-> keep[i].item]

\* GroupingOutcome::to_failures_prefer_instrumental
ToFailures(group) ==
    [i \in 1..Len(group) |->
        IF group[i].label = "Apply" THEN Failure(group[i].item) ELSE group[i]]

\* GroupingOutcome::all_done for the outcomes the callback returns
AllSucceeded(group) == \A i \in 1..Len(group) : group[i].label = "Success"

\* DropSuccess: removes the Success items
DropSuccess(distribution) ==
    [g \in 1..Len(distribution) |->
        SelectSeq(distribution[g], LAMBDA o : o.label # "Success")]

\* ToApply: relabels every Failure(x) to Apply(x)
ToApply(distribution) ==
    [g \in 1..Len(distribution) |->
        [i \in 1..Len(distribution[g]) |->
            IF distribution[g][i].label = "Failure"
            THEN Apply(distribution[g][i].item) ELSE distribution[g][i]]]

\* Splitting(k) on one item
SplitOutcome(o, k) ==
    IF o.label # "Apply" THEN <<o>>
    ELSE IF Splittable(o.item.block, k)
         THEN NewApply(WrappedBlockSplit(o.item, k))
         ELSE <<Failure(o.item)>>

\* Splitting(k): every splittable Apply(x) becomes k Applys over x.split(k)
Splitting(distribution, k) ==
    [g \in 1..Len(distribution) |->
        Flatten([i \in 1..Len(distribution[g]) |-> SplitOutcome(distribution[g][i], k)])]

\* SkipFor(n, inner): the first n invocations pass through
SkipForSplitting(distribution, count) ==
    IF count < SkipCount THEN distribution ELSE Splitting(distribution, SplitFactor)

\* stable insertion of an item into a sequence sorted by decreasing weight
RECURSIVE InsertByWeight(_, _)
InsertByWeight(sorted, o) ==
    IF sorted = <<>> THEN <<o>>
    ELSE IF Weight(Head(sorted).item) >= Weight(o.item)
         THEN <<Head(sorted)>> \o InsertByWeight(Tail(sorted), o)
         ELSE <<o>> \o sorted

RECURSIVE SortDecreasing(_)
SortDecreasing(items) ==
    IF items = <<>> THEN <<>>
    ELSE InsertByWeight(SortDecreasing(SubSeq(items, 1, Len(items) - 1)), items[Len(items)])

GroupWeight(group) == SumSizes([i \in 1..Len(group) |-> [size |-> Weight(group[i].item)]])

\* an open bin: a group of Apply items only
IsBin(group) == \A i \in 1..Len(group) : group[i].label = "Apply"

\* index of the first bin with room for weight w, 0 when there is none
FirstFit(bins, w, cap) ==
    LET fits == {g \in 1..Len(bins) : IsBin(bins[g]) /\ GroupWeight(bins[g]) + w <= cap}
    IN  IF fits = {} THEN 0 ELSE CHOOSE g \in fits : \A h \in fits : g <= h

\* place one item: an item heavier than the capacity (or one that is already
\* a Failure) becomes a Failure group of its own, any other goes to the first
\* bin with room, or opens a new bin
PlaceItem(bins, o, cap) ==
    IF o.label = "Failure" \/ Weight(o.item) > cap
    THEN Append(bins, <<Failure(o.item)>>)
    ELSE LET g == FirstFit(bins, Weight(o.item), cap)
         IN  IF g = 0 THEN Append(bins, <<o>>)
             ELSE [bins EXCEPT ![g] = Append(@, o)]

RECURSIVE PlaceAll(_, _, _)
PlaceAll(bins, items, cap) ==
    IF items = <<>> THEN bins
    ELSE PlaceAll(PlaceItem(bins, Head(items), cap), Tail(items), cap)

\* FirstFitBinpacking(capacity): first-fit-decreasing over all the items
FirstFitBinpacking(distribution, cap) ==
    PlaceAll(<<>>, SortDecreasing(Flatten(distribution)), cap)

\* GroupingHeuristicStack::distribute with the stack of submit_with_heuristic:
\* [DropSuccess, ToApply, SkipFor(1, Splitting(2)), FirstFitBinpacking(1_700_000)]
StackDistribute(distribution, count) ==
    FirstFitBinpacking(
        SkipForSplitting(ToApply(DropSuccess(distribution)), count), Capacity)


(***************************************************************************)
(* The sequencer: batch_write, the block builder, the block publisher.     *)
(***************************************************************************)
\* the DA failures (submit_celestia_blobs returning an error) a run follows
MaxDaFailures == 2

InitSeq ==
    /\ mempool = <<>>
    /\ nextTx = 1
    /\ writes = <<>>
    /\ builderPc = "wait"
    /\ builderBlock = NoBlock
    /\ tickLog = <<>>
    /\ built = <<>>
    /\ chan = <<>>
    /\ pubPc = "read"
    /\ batch = <<>>
    /\ dist = <<>>
    /\ newDist = <<>>
    /\ idx = 1
    /\ flag = FALSE
    /\ skipped = 0
    /\ da = <<>>
    /\ daHead = 0
    /\ submitCalls = <<>>
    /\ passNo = 0
    /\ restarts = 0
    /\ writeCall = NoCall
    /\ rpcErrors = <<>>
    /\ NoConversion
    /\ readPc = "recv"
    /\ readClock = 0
    /\ readBlocks = <<>>

\* serde_json::to_vec(&transaction), the data of a written blob
JsonEncode(value) == [codec |-> "json", value |-> value]

\* an intent that carries its own timestamp in place of the height given
MakeIntentStamped(data, height) ==
    [blob_type |-> "SequencedBlobIntent", data |-> data, blob_id |-> "",
     height |-> 0, timestamp |-> height]

\* make_sequenced_blob_intent(data, height)
MakeSequencedBlobIntent(data, height) ==
    [blob_type |-> "SequencedBlobIntent", data |-> data, blob_id |-> "",
     height |-> height, timestamp |-> 0]

\* LightNodeService::batch_write, the successful path: read the DA head,
\* build the intents, decode every blob as a Transaction, publish_many
BatchWrite ==
    \E n \in 1..MaxBatch : \E sizes \in [1..n -> TxSizes] :
        /\ nextTx + n - 1 <= MaxTx
        /\ LET txs == [i \in 1..n |-> [id |-> nextTx + i - 1, size |-> sizes[i]]]
               intents == [i \in 1..n |-> MakeSequencedBlobIntent(JsonEncode(txs[i]), daHead)]
           IN  /\ mempool' = mempool \o txs
               /\ writes' = Append(writes, [txs |-> txs, intents |-> intents])
        /\ nextTx' = nextTx + n
        /\ UNCHANGED <<nodeVars, convVars, readVars, rpcVars, builderPc, builderBlock, tickLog, built, chan, pubPc, batch, dist, newDist,
                       idx, flag, skipped, da, daHead, submitCalls, passNo, restarts>>

\* LOGGING_UID.fetch_add(1, SeqCst) after `calls` earlier calls.  LOGGING_UID
\* is a const item, not a static: every mention of it is a new AtomicU64
\* holding 0, fetch_add returns that 0 and the incremented temporary is
\* dropped at the end of the statement
FetchAdd(calls) == LOGGING_UID

\* tick_build_blocks up to sender.send: wait_for_next_block returns Some(block),
\* a block of the oldest transactions, at most max_block_size of them
TickBuildBlocks ==
    /\ builderPc = "wait"
    /\ mempool # <<>>
    /\ \E k \in 1..Min(Len(mempool), MaxBlockSize) :
        /\ builderBlock' = Block(SubSeq(mempool, 1, k))
        /\ tickLog' = Append(tickLog, [uid |-> FetchAdd(Len(tickLog)),
                                       block |-> Block(SubSeq(mempool, 1, k))])
        /\ built' = Append(built, Block(SubSeq(mempool, 1, k)))
        /\ mempool' = SubSeq(mempool, k + 1, Len(mempool))
    /\ builderPc' = "send"
    /\ UNCHANGED <<nodeVars, convVars, readVars, rpcVars, nextTx, writes, chan, pubPc, batch, dist, newDist, idx, flag, skipped,
                   da, daHead, submitCalls, passNo, restarts>>

\* tick_build_blocks: wait_for_next_block returns None, there is nothing to
\* include; the tick logs its uid and returns Ok
TickBuildNone ==
    /\ builderPc = "wait"
    /\ mempool = <<>>
    /\ Cardinality({i \in 1..Len(tickLog) : tickLog[i].block = NoBlock}) < MaxNoneTicks
    /\ tickLog' = Append(tickLog, [uid |-> FetchAdd(Len(tickLog)), block |-> NoBlock])
    /\ UNCHANGED <<nodeVars, convVars, readVars, rpcVars, mempool, nextTx, writes, builderPc, builderBlock, built, chan,
                   pubPc, batch, dist, newDist, idx, flag, skipped, da, daHead, submitCalls, passNo,
                   restarts>>

\* a send on a channel without a bound
SendBlockUnbounded ==
    /\ builderPc = "send"
    /\ chan' = Append(chan, builderBlock)
    /\ builderBlock' = NoBlock
    /\ builderPc' = "wait"
    /\ UNCHANGED <<nodeVars, convVars, readVars, rpcVars, mempool, nextTx, writes, tickLog, built, pubPc, batch, dist, newDist, idx, flag,
                   skipped, da, daHead, submitCalls, passNo, restarts>>

\* tick_build_blocks: sender.send(block).await completes
SendBlock ==
    /\ builderPc = "send"
    /\ Len(chan) < ChannelCapacity
    /\ chan' = Append(chan, builderBlock)
    /\ builderBlock' = NoBlock
    /\ builderPc' = "wait"
    /\ UNCHANGED <<nodeVars, convVars, readVars, rpcVars, mempool, nextTx, writes, tickLog, built, pubPc, batch, dist, newDist, idx, flag,
                   skipped, da, daHead, submitCalls, passNo, restarts>>

\* run_block_proposer after try_join! returned an error: both futures are
\* dropped with what they hold, and the loop starts the two tasks again on the
\* same channel
RestartProposer ==
    /\ restarts' = restarts + 1
    /\ builderPc' = "wait"
    /\ builderBlock' = NoBlock
    /\ pubPc' = "read"
    /\ batch' = <<>>
    /\ dist' = <<>>
    /\ newDist' = <<>>
    /\ idx' = 1
    /\ flag' = FALSE
    /\ skipped' = 0
    /\ passNo' = 0
    /\ UNCHANGED <<nodeVars, convVars, readVars, rpcVars, mempool, nextTx, writes, tickLog, built, chan, da, daHead,
                   submitCalls>>

\* run_block_builder returns the error of memseq.wait_for_next_block
BuilderError ==
    /\ builderPc = "wait"
    /\ restarts < MaxRestarts
    /\ RestartProposer

\* read_blocks: receiver.recv() yields a block within the remaining time
ReadBlocksRecv ==
    /\ pubPc = "read"
    /\ chan # <<>>
    /\ batch' = Append(batch, Head(chan))
    /\ chan' = Tail(chan)
    /\ UNCHANGED <<nodeVars, convVars, readVars, rpcVars, mempool, nextTx, writes, builderPc, builderBlock, tickLog, built, pubPc, dist,
                   newDist, idx, flag, skipped, da, daHead, submitCalls, passNo, restarts>>

\* read_blocks ends (time elapsed or recv timed out) with a batch, and
\* submit_with_heuristic wraps the blocks and builds the start distribution
ReadBlocksEnd ==
    /\ pubPc = "read"
    /\ batch # <<>>
    /\ dist' = NewApplyDistribution([i \in 1..Len(batch) |-> WrappedBlockTryNew(batch[i])])
    /\ newDist' = <<>>
    /\ idx' = 1
    /\ flag' = FALSE
    /\ skipped' = 0
    /\ passNo' = 0
    /\ pubPc' = "distribute"
    /\ UNCHANGED <<nodeVars, convVars, readVars, rpcVars, mempool, nextTx, writes, builderPc, builderBlock, tickLog, built, chan, batch,
                   da, daHead, submitCalls, restarts>>

\* submit_with_heuristic returns the error of WrappedBlock::try_new, and
\* run_block_publisher returns it
PublisherError ==
    /\ pubPc = "read"
    /\ batch # <<>>
    /\ restarts < MaxRestarts
    /\ RestartProposer

\* run_async_sequential_with_metadata: one distribute of the stack
Distribute ==
    /\ pubPc = "distribute"
    /\ dist' = StackDistribute(dist, skipped)
    /\ skipped' = Min(skipped + 1, SkipCount)
    /\ passNo' = passNo + 1
    /\ newDist' = <<>>
    /\ idx' = 1
    /\ pubPc' = "callback"
    /\ UNCHANGED <<nodeVars, convVars, readVars, rpcVars, mempool, nextTx, writes, builderPc, builderBlock, tickLog, built, chan, batch,
                   flag, da, daHead, submitCalls, restarts>>

DaFailures == Cardinality({i \in 1..Len(submitCalls) : ~submitCalls[i].ok})

\* what the pass does once the callback has returned `outcome` for group idx
EndOfCallback(outcome) ==
    LET nd == Append(newDist, outcome)
    IN  IF idx < Len(dist)
        THEN /\ newDist' = nd
             /\ idx' = idx + 1
             /\ UNCHANGED <<dist, pubPc, batch, passNo, skipped>>
        ELSE IF \A g \in 1..Len(nd) : AllSucceeded(nd[g])
        THEN /\ pubPc' = "read"
             /\ batch' = <<>>
             /\ dist' = <<>>
             /\ newDist' = <<>>
             /\ idx' = 1
             /\ passNo' = 0
             /\ skipped' = 0
        ELSE /\ dist' = nd
             /\ newDist' = <<>>
             /\ idx' = 1
             /\ pubPc' = "distribute"
             /\ UNCHANGED <<batch, passNo, skipped>>

\* a callback that forgets the flag
CallbackFlagNeverSet == FALSE

\* the flag the callback works with: index == 0 clears it
CallbackFlag == IF idx = 1 THEN FALSE ELSE flag

\* the callback of submit_with_heuristic on a group whose flag is set: the
\* group is turned into failures and nothing is submitted
CallbackSkip ==
    /\ pubPc = "callback"
    /\ CallbackFlag
    /\ flag' = TRUE
    /\ EndOfCallback(ToFailures(dist[idx]))
    /\ UNCHANGED <<nodeVars, convVars, readVars, rpcVars, mempool, nextTx, writes, builderPc, builderBlock, tickLog, built, chan,
                   da, daHead, submitCalls, restarts>>

\* submit_blocks(blocks): the blobs of the wrapped blocks, in order
SubmittedBlobs(blocks, height) ==
    [i \in 1..Len(blocks) |-> [height |-> height, data |-> blocks[i].blob.data]]

\* the callback on a group whose flag is clear: submit_blocks succeeds
CallbackSubmitOk ==
    /\ pubPc = "callback"
    /\ ~CallbackFlag
    /\ LET blocks == IntoOriginal(dist[idx])
       IN  /\ da' = da \o SubmittedBlobs(blocks, daHead + 1)
           /\ daHead' = daHead + 1
           /\ submitCalls' = Append(submitCalls, [blocks |-> blocks, ok |-> TRUE, pass |-> passNo, group |-> idx])
           /\ flag' = FALSE
           /\ EndOfCallback(NewAllSuccess(Len(blocks)))
    /\ UNCHANGED <<nodeVars, convVars, readVars, rpcVars, mempool, nextTx, writes, builderPc, builderBlock, tickLog, built, chan, restarts>>

\* the callback on a group whose flag is clear: submit_blocks fails
CallbackSubmitErr ==
    /\ pubPc = "callback"
    /\ ~CallbackFlag
    /\ DaFailures < MaxDaFailures
    /\ LET blocks == IntoOriginal(dist[idx])
       IN  /\ submitCalls' = Append(submitCalls, [blocks |-> blocks, ok |-> FALSE, pass |-> passNo, group |-> idx])
           /\ flag' = TRUE
           /\ EndOfCallback(NewApply(blocks))
    /\ UNCHANGED <<nodeVars, convVars, readVars, rpcVars, mempool, nextTx, writes, builderPc, builderBlock, tickLog, built, chan,
                   da, daHead, restarts>>

(***************************************************************************)
(* The full-node driver (partial.rs): the DA stream consumer and the       *)
(* commitment-event task.                                                  *)
(***************************************************************************)
\* responses of the DA stream a run follows
MaxStream == 2
\* commitment events a run follows
MaxEvents == 2
\* heights 0..MaxHeight that a commitment event may carry
MaxHeight == 1

InitNode ==
    /\ stream = <<>>
    /\ readerPc = "next"
    /\ executeCalls = <<>>
    /\ postCalls = <<>>
    /\ pending = [height |-> -1]
    /\ events = <<>>
    /\ eventsPc = "run"
    /\ finalizeCalls = <<>>
    /\ finalized = -1
    /\ txChannel = <<>>
    /\ nextNodeTx = 1
    /\ writerPc = "run"
    /\ daBatches = <<>>
    /\ ticks = <<>>
    /\ winPc = "recv"
    /\ winClock = 0
    /\ recvSince = 0
    /\ winBatch = <<>>
    /\ lockHolder = "free"
    /\ readerLockPc = "start"
    /\ writerLockPc = "collect"
    /\ lockItems = 0
    /\ lockWrites = 0
    /\ executorPc = "running"

\* serde_json::from_slice
JsonDecode(data) ==
    IF data.codec = "json" THEN [ok |-> TRUE, value |-> data.value] ELSE [ok |-> FALSE]

\* a user transaction of a block as the DA carries it: Transaction(bytes),
\* bytes the JSON of a SignedTransaction
UserTx(i) == [payload |-> JsonEncode([signed |-> i])]
\* a transaction whose bytes are no JSON of a SignedTransaction
BadTx == [payload |-> [codec |-> "garbage"]]

\* the blocks the stream's blobs may carry
StreamBlocks ==
    {Block(<<>>), Block(<<UserTx(1)>>), Block(<<UserTx(1), UserTx(2)>>), Block(<<BadTx>>)}

\* the bytes a blob of the stream may hold: the JSON of a block, or the
\* compressed bcs encoding the sequencer's publisher writes
StreamData ==
    {JsonEncode(b) : b \in StreamBlocks} \cup {ZstdCompress(BcsEncode(Block(<<UserTx(1)>>)))}

\* the responses stream.next() may yield as the p-th item
StreamResponses(p) ==
    {[status |-> "ok", has_blob |-> TRUE, blob_type |-> "SequencedBlobBlock",
      data |-> d, blob_id |-> p, timestamp |-> p, height |-> p] : d \in StreamData}
    \cup
    {[status |-> st, has_blob |-> hb, blob_type |-> bt,
      data |-> JsonEncode(Block(<<UserTx(1)>>)), blob_id |-> p, timestamp |-> p, height |-> p] :
        <<st, hb, bt>> \in {<<"err", FALSE, "None">>, <<"ok", FALSE, "None">>,
                            <<"ok", TRUE, "None">>, <<"ok", TRUE, "PassedThroughBlob">>,
                            <<"ok", TRUE, "SequencedBlobIntent">>}}

\* lines 154-166: the response carries a blob of variant SequencedBlobBlock
IsSequencedBlobBlock(resp) ==
    /\ resp.status = "ok"
    /\ resp.has_blob
    /\ resp.blob_type = "SequencedBlobBlock"

\* lines 168-188: the bytes decode to a Block and each of its transactions
\* to a SignedTransaction
Decodes(resp) ==
    /\ JsonDecode(resp.data).ok
    /\ \A i \in 1..Len(JsonDecode(resp.data).value.transactions) :
          JsonDecode(JsonDecode(resp.data).value.transactions[i].payload).ok

Sha3Of(x) == [hash |-> "sha3_256", of |-> x]
Sha256Of(x) == [hash |-> "sha256", of |-> x]

\* an executable block made of the user transactions alone
ExecutableBlockWithoutMetadata(resp) ==
    LET block == JsonDecode(resp.data).value
    IN  [block_id |-> Sha256Of(resp.data),
         transactions |->
            [i \in 1..Len(block.transactions) |->
                    [kind |-> "UserTransaction",
                     signed |-> JsonDecode(block.transactions[i].payload).value]]]

\* lines 173-200: the executable block built from a blob
ExecutableBlockOf(resp) ==
    LET block == JsonDecode(resp.data).value
    IN  [block_id |-> Sha256Of(resp.data),
         transactions |->
            <<[kind |-> "BlockMetadata", parent |-> Sha3Of(resp.blob_id),
               timestamp |-> resp.timestamp]>>
            \o [i \in 1..Len(block.transactions) |->
                    [kind |-> "UserTransaction",
                     signed |-> JsonDecode(block.transactions[i].payload).value]]]

\* the commitment the executor returns for the n-th block it executes
CommitmentOf(n, executable) ==
    [height |-> n, block_id |-> executable.block_id,
     state_root |-> [root_after |-> n]]

\* a join that waits for both tasks to finish before it looks at their results
JoinAll(writer, reader) ==
    IF writer # "run" /\ reader \notin {"next", "executed"} THEN "failed" ELSE "running"

\* a join that ends as soon as either task has returned, Ok or Err
JoinUntilFirstReturn(writer, reader) ==
    IF writer # "run" \/ reader \notin {"next", "executed"} THEN "failed" ELSE "running"

\* run_executor: tokio::try_join!(write_transactions_to_da, read_blocks_from_da)?
\* returns the first Err either future returns; write_transactions_to_da
\* never returns Ok, so the join never completes with Ok
TryJoin(writer, reader) ==
    IF writer # "run" \/ reader \notin {"next", "executed", "ended"}
    THEN "failed" ELSE "running"

\* a consumer that logs a bad response and goes on with the next one
ReaderSkipsBadBlob ==
    /\ readerPc = "next"
    /\ Len(stream) < MaxStream
    /\ \E resp \in StreamResponses(Len(stream) + 1) :
        /\ ~(IsSequencedBlobBlock(resp) /\ Decodes(resp))
        /\ stream' = Append(stream, resp)
    /\ UNCHANGED <<seqVars, writerVars, gcVars, readerPc, executeCalls, postCalls, pending, events, eventsPc,
                   finalizeCalls, finalized, executorPc>>

\* read_blocks_from_da, one turn of the loop up to execute_block_opt: take the
\* next response, validate and decode it, build the block metadata, execute
ReaderTakeBlob ==
    /\ executorPc = "running"
    /\ readerPc = "next"
    /\ Len(stream) < MaxStream
    /\ \E resp \in StreamResponses(Len(stream) + 1) :
       \E outcome \in {"ok", "metadata_err", "execute_err"} :
        /\ stream' = Append(stream, resp)
        /\ IF ~(IsSequencedBlobBlock(resp) /\ Decodes(resp))
           THEN /\ readerPc' = "failed_blob"
                /\ UNCHANGED <<executeCalls, pending>>
           ELSE IF outcome = "metadata_err"
           THEN /\ readerPc' = "failed_metadata"
                /\ UNCHANGED <<executeCalls, pending>>
           ELSE /\ executeCalls' = Append(executeCalls, ExecutableBlockOf(resp))
                /\ IF outcome = "ok"
                   THEN /\ pending' = CommitmentOf(Len(executeCalls) + 1, ExecutableBlockOf(resp))
                        /\ readerPc' = "executed"
                   ELSE /\ readerPc' = "failed_execute"
                        /\ UNCHANGED pending
    /\ executorPc' = TryJoin(writerPc, readerPc')
    /\ UNCHANGED <<seqVars, writerVars, gcVars, postCalls, events, eventsPc, finalizeCalls, finalized>>

\* a consumer that goes on to the next blob without posting the commitment
ReaderPostSkipped ==
    /\ readerPc = "executed"
    /\ readerPc' = "next"
    /\ UNCHANGED <<seqVars, writerVars, gcVars, stream, executeCalls, postCalls, pending, events, eventsPc,
                   finalizeCalls, finalized, executorPc>>

\* read_blocks_from_da: post_block_commitment(commitment) returns Ok or Err
ReaderPost ==
    /\ executorPc = "running"
    /\ readerPc = "executed"
    /\ postCalls' = Append(postCalls, pending)
    /\ \E ok \in BOOLEAN : readerPc' = IF ok THEN "next" ELSE "failed_post"
    /\ executorPc' = TryJoin(writerPc, readerPc')
    /\ UNCHANGED <<seqVars, writerVars, gcVars, stream, executeCalls, pending, events, eventsPc,
                   finalizeCalls, finalized>>

\* read_blocks_from_da: stream.next() yields None, the loop ends with Ok(())
ReaderStreamEnd ==
    /\ executorPc = "running"
    /\ readerPc = "next"
    /\ readerPc' = "ended"
    /\ executorPc' = TryJoin(writerPc, readerPc')
    /\ UNCHANGED <<seqVars, writerVars, gcVars, stream, executeCalls, postCalls, pending, events, eventsPc,
                   finalizeCalls, finalized>>

\* the events the commitment-event stream may yield
CommitmentEvents ==
    {[kind |-> k, height |-> h] : k \in {"Accepted", "Rejected"}, h \in 0..MaxHeight}

\* a task that finalizes on every event, rejected ones too
FinalizedByAnyEvent(event) == <<event.height>>

\* the heights read_commitment_events passes on for an event
FinalizedBy(event) == IF event.kind = "Accepted" THEN <<event.height>> ELSE <<>>

\* a task that reverts the finalized height on a Rejected event
ReadCommitmentEventReverting ==
    /\ eventsPc = "run"
    /\ Len(events) < MaxEvents
    /\ \E event \in CommitmentEvents : \E ok \in BOOLEAN :
        /\ events' = Append(events, event)
        /\ finalizeCalls' = finalizeCalls \o FinalizedBy(event)
        /\ IF FinalizedBy(event) = <<>>
           THEN finalized' = event.height - 1 /\ UNCHANGED eventsPc
           ELSE IF ok
                THEN finalized' = event.height /\ UNCHANGED eventsPc
                ELSE eventsPc' = "failed" /\ UNCHANGED finalized
    /\ UNCHANGED <<seqVars, writerVars, gcVars, stream, readerPc, executeCalls, postCalls, pending,
                   executorPc>>

\* a task that passes on an Accepted height only when it is above the
\* finalized one
ReadCommitmentEventMonotone ==
    /\ eventsPc = "run"
    /\ Len(events) < MaxEvents
    /\ \E event \in CommitmentEvents : \E ok \in BOOLEAN :
        /\ events' = Append(events, event)
        /\ IF FinalizedBy(event) = <<>> \/ event.height <= finalized
           THEN UNCHANGED <<finalizeCalls, finalized, eventsPc>>
           ELSE /\ finalizeCalls' = finalizeCalls \o FinalizedBy(event)
                /\ IF ok
                   THEN finalized' = event.height /\ UNCHANGED eventsPc
                   ELSE eventsPc' = "failed" /\ UNCHANGED finalized
    /\ UNCHANGED <<seqVars, writerVars, gcVars, stream, readerPc, executeCalls, postCalls, pending,
                   executorPc>>

\* read_commitment_events, one turn of the loop on an event: Accepted calls
\* set_finalized_block_height (which may fail), Rejected is logged
ReadCommitmentEvent ==
    /\ eventsPc = "run"
    /\ Len(events) < MaxEvents
    /\ \E event \in CommitmentEvents : \E ok \in BOOLEAN :
        /\ events' = Append(events, event)
        /\ finalizeCalls' = finalizeCalls \o FinalizedBy(event)
        /\ IF FinalizedBy(event) = <<>>
           THEN UNCHANGED <<finalized, eventsPc>>
           ELSE IF ok
                THEN finalized' = event.height /\ UNCHANGED eventsPc
                ELSE eventsPc' = "failed" /\ UNCHANGED finalized
    /\ UNCHANGED <<seqVars, writerVars, gcVars, stream, readerPc, executeCalls, postCalls, pending,
                   executorPc>>

\* read_commitment_events: the stream yields an error (res?), or ends
CommitmentStreamStops ==
    /\ eventsPc = "run"
    /\ \E how \in {"failed", "ended"} : eventsPc' = how
    /\ UNCHANGED <<seqVars, writerVars, gcVars, stream, readerPc, executeCalls, postCalls, pending, events,
                   finalizeCalls, finalized, executorPc>>

(***************************************************************************)
(* The full-node driver: the transaction-to-DA writer and run_executor.    *)
(***************************************************************************)
\* transactions the executor's API puts on the in-process channel in a run
MaxNodeTx == 2

\* the executor sends a transaction on the channel bound by
\* bind_transaction_channel
SubmitTransaction ==
    /\ nextNodeTx <= MaxNodeTx
    /\ txChannel' = Append(txChannel, nextNodeTx)
    /\ nextNodeTx' = nextNodeTx + 1
    /\ UNCHANGED <<seqVars, gcVars, stream, readerPc, executeCalls, postCalls, pending, events, eventsPc,
                   finalizeCalls, finalized, writerPc, daBatches, ticks, windowVars, lockVars,
                   executorPc>>

\* calls of tick_write_transactions_to_da a run follows
MaxTicks == 3

\* the blobs of a request with the transactions in reverse order
BlobWritesReversed(txs) ==
    [i \in 1..Len(txs) |-> [data |-> JsonEncode([signed |-> txs[Len(txs) + 1 - i]])]]

\* the blobs of the batch_write request made of the transactions txs
BlobWrites(txs) == [i \in 1..Len(txs) |-> [data |-> JsonEncode([signed |-> txs[i]])]]

\* a tick that leaves the transactions of a failed batch_write in the channel
WriterTickPuttingBack ==
    /\ executorPc = "running"
    /\ writerPc = "run"
    /\ Len(ticks) < MaxTicks
    /\ IF txChannel = <<>>
       THEN /\ ticks' = Append(ticks, [txs |-> <<>>, locked |-> FALSE, batch |-> 0])
            /\ UNCHANGED <<txChannel, writerPc, daBatches>>
       ELSE \E k \in 1..Len(txChannel) : \E outcome \in {"ok", "serialize_err", "write_err"} :
               /\ txChannel' = IF outcome = "write_err" THEN txChannel
                               ELSE SubSeq(txChannel, k + 1, Len(txChannel))
               /\ IF outcome = "serialize_err"
                  THEN /\ writerPc' = "failed_serialize"
                       /\ ticks' = Append(ticks, [txs |-> SubSeq(txChannel, 1, k),
                                                  locked |-> FALSE, batch |-> 0])
                       /\ UNCHANGED daBatches
                  ELSE /\ daBatches' = Append(daBatches,
                              [blobs |-> BlobWrites(SubSeq(txChannel, 1, k)),
                               ok |-> outcome = "ok"])
                       /\ ticks' = Append(ticks, [txs |-> SubSeq(txChannel, 1, k),
                                                  locked |-> TRUE,
                                                  batch |-> Len(daBatches) + 1])
                       /\ writerPc' = IF outcome = "ok" THEN "run" ELSE "failed_write"
    /\ executorPc' = TryJoin(writerPc', readerPc)
    /\ UNCHANGED <<seqVars, gcVars, stream, readerPc, executeCalls, postCalls, pending, events, eventsPc,
                   finalizeCalls, finalized, nextNodeTx, windowVars, lockVars>>

\* tick_write_transactions_to_da, one call: the transactions received in the
\* window are serialized and, when there are any, written with one
\* batch_write; serde_json::to_vec or batch_write may fail
WriterTick ==
    /\ executorPc = "running"
    /\ writerPc = "run"
    /\ Len(ticks) < MaxTicks
    /\ IF txChannel = <<>>
       THEN /\ ticks' = Append(ticks, [txs |-> <<>>, locked |-> FALSE, batch |-> 0])
            /\ UNCHANGED <<txChannel, writerPc, daBatches>>
       ELSE \E k \in 1..Len(txChannel) : \E outcome \in {"ok", "serialize_err", "write_err"} :
               /\ txChannel' = SubSeq(txChannel, k + 1, Len(txChannel))
               /\ IF outcome = "serialize_err"
                  THEN /\ writerPc' = "failed_serialize"
                       /\ ticks' = Append(ticks, [txs |-> SubSeq(txChannel, 1, k),
                                                  locked |-> FALSE, batch |-> 0])
                       /\ UNCHANGED daBatches
                  ELSE /\ daBatches' = Append(daBatches,
                              [blobs |-> BlobWrites(SubSeq(txChannel, 1, k)),
                               ok |-> outcome = "ok"])
                       /\ ticks' = Append(ticks, [txs |-> SubSeq(txChannel, 1, k),
                                                  locked |-> TRUE,
                                                  batch |-> Len(daBatches) + 1])
                       /\ writerPc' = IF outcome = "ok" THEN "run" ELSE "failed_write"
    /\ executorPc' = TryJoin(writerPc', readerPc)
    /\ UNCHANGED <<seqVars, gcVars, stream, readerPc, executeCalls, postCalls, pending, events, eventsPc,
                   finalizeCalls, finalized, nextNodeTx, windowVars, lockVars>>

(***************************************************************************)
(* One call of tick_publish_blobs in time: read_blocks (lines 177-218) and *)
(* the test that follows it.  Time moves in steps of MsPerStep             *)
(* milliseconds; read_blocks starts at step 0.                             *)
(***************************************************************************)
\* milliseconds of one step of time
MsPerStep == 50
\* what memseq.building_time_ms() returns: the configured building time
BuildingTimeMs == 200
\* blocks one read_blocks receives in a run
MaxReadBlocks == 3

\* let half_building_time = self.memseq.building_time_ms()
half_building_time == BuildingTimeMs

ReadFrame ==
    UNCHANGED <<nodeVars, convVars, rpcVars, mempool, nextTx, writes, builderPc, builderBlock, tickLog, built,
                chan, pubPc, batch, dist, newDist, idx, flag, skipped, da, daHead,
                submitCalls, passNo, restarts>>

\* tick_publish_blobs after read_blocks: an empty Vec returns Ok(()), a
\* non-empty one goes to submit_with_heuristic
AfterReadBlocks == IF readBlocks = <<>> THEN "returned" ELSE "submit"

\* time passes while recv waits for the remaining time
ReadTimePasses ==
    /\ readPc = "recv"
    /\ readClock * MsPerStep < half_building_time
    /\ readClock' = readClock + 1
    /\ UNCHANGED <<readPc, readBlocks>>
    /\ ReadFrame

\* Ok(Some(block)): the block is pushed and the loop computes the remaining
\* time again
ReadBlock ==
    /\ readPc = "recv"
    /\ readClock * MsPerStep <= half_building_time
    /\ Len(readBlocks) < MaxReadBlocks
    /\ readBlocks' = Append(readBlocks, readClock)
    /\ UNCHANGED <<readPc, readClock>>
    /\ ReadFrame

\* Err(_): the remaining time has elapsed (or checked_sub gave None)
ReadTimedOut ==
    /\ readPc = "recv"
    /\ readClock * MsPerStep >= half_building_time
    /\ readPc' = AfterReadBlocks
    /\ UNCHANGED <<readClock, readBlocks>>
    /\ ReadFrame

\* Ok(None): the channel was closed
ReadSenderDropped ==
    /\ readPc = "recv"
    /\ readPc' = AfterReadBlocks
    /\ UNCHANGED <<readClock, readBlocks>>
    /\ ReadFrame

NextRead ==
    \/ ReadTimePasses
    \/ ReadBlock
    \/ ReadTimedOut
    \/ ReadSenderDropped

(***************************************************************************)
(* One call of tick_write_transactions_to_da in time: the receive loop of  *)
(* lines 94-117.  Time moves in steps of MsPerStep milliseconds; the tick  *)
(* starts at step 0 with its first recv.                                   *)
(***************************************************************************)
\* end_time = start_time + 100 ms
WindowMs == 100
\* timeout(Duration::from_millis(100), recv())
RecvTimeoutMs == 100
\* steps of time a run follows
MaxClock == 6
\* transactions a tick receives in a run
MaxWindowTx == 3

Ms(steps) == steps * MsPerStep

WindowFrame ==
    UNCHANGED <<seqVars, gcVars, stream, readerPc, executeCalls, postCalls, pending, events,
                eventsPc, finalizeCalls, finalized, txChannel, nextNodeTx, writerPc,
                daBatches, ticks, lockVars, executorPc>>

\* time passes while recv waits; the timeout ends the wait at RecvTimeoutMs
TimePasses ==
    /\ winPc = "recv"
    /\ winClock < MaxClock
    /\ Ms(winClock - recvSince) < RecvTimeoutMs
    /\ winClock' = winClock + 1
    /\ UNCHANGED <<winPc, recvSince, winBatch>>
    /\ WindowFrame

\* recv yields a transaction now: it is pushed, and the loop goes on to the
\* next recv unless Instant::now() > end_time
RecvTransaction ==
    /\ winPc = "recv"
    /\ Len(winBatch) < MaxWindowTx
    /\ winBatch' = Append(winBatch, winClock)
    /\ IF Ms(winClock) > WindowMs
       THEN winPc' = "done" /\ UNCHANGED recvSince
       ELSE winPc' = "recv" /\ recvSince' = winClock
    /\ UNCHANGED winClock
    /\ WindowFrame

\* the timeout of the recv in progress elapses: the while let ends
RecvTimesOut ==
    /\ winPc = "recv"
    /\ Ms(winClock - recvSince) >= RecvTimeoutMs
    /\ winPc' = "done"
    /\ UNCHANGED <<winClock, recvSince, winBatch>>
    /\ WindowFrame

\* recv yields Err, the channel being closed: break
RecvClosed ==
    /\ winPc = "recv"
    /\ winPc' = "done"
    /\ UNCHANGED <<winClock, recvSince, winBatch>>
    /\ WindowFrame

NextWindow ==
    \/ TimePasses
    \/ RecvTransaction
    \/ RecvTimesOut
    \/ RecvClosed

(***************************************************************************)
(* The lock around the DA client (Arc<RwLock<LightNodeServiceClient>>):    *)
(* the reader takes its write side to open the stream (lines 141-148), the *)
(* writer to make one batch_write (lines 119-125).  Each guard is dropped  *)
(* at the end of its block, or by the `?` that leaves the function.        *)
(***************************************************************************)
\* batch_write calls of the writer a run follows
MaxLockWrites == 3

LockFrame ==
    UNCHANGED <<seqVars, gcVars, stream, readerPc, executeCalls, postCalls, pending, events,
                eventsPc, finalizeCalls, finalized, txChannel, nextNodeTx, writerPc,
                daBatches, ticks, windowVars, executorPc>>

\* a reader that keeps the guard while it consumes the stream
ReaderKeepsGuard == "reader"

\* the holder of the lock once stream_read_from_height has returned Ok: the
\* block of lines 141-147 has ended and its guard is dropped
HolderAfterOpen == "free"

\* get_block_head_height returns: Ok goes on to the lock, Err ends the reader
ReaderHeadHeight ==
    /\ readerLockPc = "start"
    /\ \E ok \in BOOLEAN : readerLockPc' = IF ok THEN "want" ELSE "failed"
    /\ UNCHANGED <<lockHolder, writerLockPc, lockItems, lockWrites>>
    /\ LockFrame

\* client_ptr.write().await of the reader
ReaderAcquires ==
    /\ readerLockPc = "want"
    /\ lockHolder = "free"
    /\ lockHolder' = "reader"
    /\ readerLockPc' = "opening"
    /\ UNCHANGED <<writerLockPc, lockItems, lockWrites>>
    /\ LockFrame

\* stream_read_from_height returns Ok: the guard goes, the stream stays
ReaderOpened ==
    /\ readerLockPc = "opening"
    /\ lockHolder' = HolderAfterOpen
    /\ readerLockPc' = "consuming"
    /\ UNCHANGED <<writerLockPc, lockItems, lockWrites>>
    /\ LockFrame

\* stream_read_from_height returns Err: `?` leaves the function
ReaderOpenFails ==
    /\ readerLockPc = "opening"
    /\ lockHolder' = "free"
    /\ readerLockPc' = "failed"
    /\ UNCHANGED <<writerLockPc, lockItems, lockWrites>>
    /\ LockFrame

\* the while let over the stream: an item, the end, or an error
ReaderConsumes ==
    /\ readerLockPc = "consuming"
    /\ \/ lockItems < MaxStream /\ lockItems' = lockItems + 1 /\ UNCHANGED readerLockPc
       \/ readerLockPc' = "ended" /\ UNCHANGED lockItems
       \/ readerLockPc' = "failed" /\ UNCHANGED lockItems
    /\ UNCHANGED <<lockHolder, writerLockPc, lockWrites>>
    /\ LockFrame

\* a tick of the writer has collected transactions: transactions.len() > 0
WriterCollected ==
    /\ writerLockPc = "collect"
    /\ lockWrites < MaxLockWrites
    /\ writerLockPc' = "want"
    /\ UNCHANGED <<lockHolder, readerLockPc, lockItems, lockWrites>>
    /\ LockFrame

\* client_ptr.write().await of the writer
WriterAcquires ==
    /\ writerLockPc = "want"
    /\ lockHolder = "free"
    /\ lockHolder' = "writer"
    /\ writerLockPc' = "writing"
    /\ UNCHANGED <<readerLockPc, lockItems, lockWrites>>
    /\ LockFrame

\* batch_write returns: Ok ends the if block, Err leaves the function
WriterWrote ==
    /\ writerLockPc = "writing"
    /\ lockHolder' = "free"
    /\ lockWrites' = lockWrites + 1
    /\ \E ok \in BOOLEAN : writerLockPc' = IF ok THEN "collect" ELSE "failed"
    /\ UNCHANGED <<readerLockPc, lockItems>>
    /\ LockFrame

NextLock ==
    \/ ReaderHeadHeight
    \/ ReaderAcquires
    \/ ReaderOpened
    \/ ReaderOpenFails
    \/ ReaderConsumes
    \/ WriterCollected
    \/ WriterAcquires
    \/ WriterWrote

(***************************************************************************)
(* The light-node service on its own: batch_write with its failures, in    *)
(* two steps around its awaits, the DA head moving, stream_write_blob.     *)
(***************************************************************************)
\* heights the DA head reaches on its own in a run
MaxHead == 2
\* failed calls of the service a run follows
MaxRpcErrors == 2

\* the blobs of a batch_write request: the i-th is the JSON of a Transaction
\* when good[i], bytes that are no Transaction otherwise
RequestBlobs(first, sizes, good) ==
    [i \in 1..Len(sizes) |->
        IF good[i]
        THEN [data |-> JsonEncode([id |-> first + i - 1, size |-> sizes[i]])]
        ELSE [data |-> [codec |-> "garbage", id |-> first + i - 1]]]

\* the ids that tell the blobs of a request apart
RequestIds(first, n) == first..(first + n - 1)

\* every blob of the request decodes: serde_json::from_slice(&blob.data)
AllDecode(blobs) == \A i \in 1..Len(blobs) : JsonDecode(blobs[i].data).ok

\* the transactions decoded before the first blob that does not decode
RECURSIVE DecodedPrefix(_)
DecodedPrefix(blobs) ==
    IF blobs = <<>> \/ ~JsonDecode(Head(blobs).data).ok THEN <<>>
    ELSE <<JsonDecode(Head(blobs).data).value>> \o DecodedPrefix(Tail(blobs))

\* a batch_write that publishes each transaction as soon as it has decoded it
PublishedEagerly(blobs, published) ==
    IF AllDecode(blobs) THEN SubSeq(DecodedPrefix(blobs), 1, published)
    ELSE DecodedPrefix(blobs)

\* what batch_write has put in the mempool when it returns: nothing when a
\* blob does not decode (the loop returns before publish_many), else the
\* transactions publish_many stored, all of them when it returned Ok
PublishedByWrite(blobs, published) ==
    IF AllDecode(blobs) THEN SubSeq(DecodedPrefix(blobs), 1, published) ELSE <<>>

\* a failed call as the client sees it
RpcError(rpc, cause, status, ids) ==
    [rpc |-> rpc, cause |-> cause, status |-> status, intents |-> <<>>, ids |-> ids]

\* batch_write: header_network_head() fails, the call returns
\* Status::internal
BatchWriteHeadFails ==
    /\ writeCall = NoCall
    /\ Len(rpcErrors) < MaxRpcErrors
    /\ \E n \in 1..MaxBatch :
        /\ nextTx + n - 1 <= MaxTx
        /\ nextTx' = nextTx + n
        /\ rpcErrors' = Append(rpcErrors,
                               RpcError("batch_write", "head", "internal", RequestIds(nextTx, n)))
    /\ UNCHANGED <<nodeVars, convVars, readVars, mempool, writes, builderPc, builderBlock, tickLog, built, chan, pubPc, batch,
                   dist, newDist, idx, flag, skipped, da, daHead, submitCalls, passNo, restarts,
                   writeCall>>

\* batch_write up to the head it reads: header_network_head() returns the
\* DA head
BatchWriteBegin ==
    /\ writeCall = NoCall
    /\ \E n \in 1..MaxBatch : \E sizes \in [1..n -> TxSizes] : \E good \in [1..n -> BOOLEAN] :
        /\ nextTx + n - 1 <= MaxTx
        /\ nextTx' = nextTx + n
        /\ writeCall' = [blobs |-> RequestBlobs(nextTx, sizes, good), height |-> daHead,
                         ids |-> RequestIds(nextTx, n)]
    /\ UNCHANGED <<nodeVars, convVars, readVars, mempool, writes, builderPc, builderBlock, tickLog, built, chan, pubPc, batch,
                   dist, newDist, idx, flag, skipped, da, daHead, submitCalls, passNo, restarts,
                   rpcErrors>>

\* batch_write from the intents on: build the intents, decode every blob,
\* publish_many, answer
BatchWriteEnd ==
    /\ writeCall # NoCall
    /\ LET blobs == writeCall.blobs
           intents == [i \in 1..Len(blobs) |->
                          MakeSequencedBlobIntent(blobs[i].data, writeCall.height)]
       IN  \E published \in 0..Len(blobs) :
            /\ mempool' = mempool \o PublishedByWrite(blobs, published)
            /\ IF AllDecode(blobs) /\ published = Len(blobs)
               THEN \* publish_many returned Ok
                    /\ writes' = Append(writes, [txs |-> DecodedPrefix(blobs), intents |-> intents,
                                                 blobs |-> blobs, read |-> writeCall.height,
                                                 head |-> daHead])
                    /\ UNCHANGED rpcErrors
               ELSE /\ Len(rpcErrors) < MaxRpcErrors
                    /\ rpcErrors' = Append(rpcErrors,
                          RpcError("batch_write",
                                   IF AllDecode(blobs) THEN "publish" ELSE "decode",
                                   "internal", writeCall.ids))
                    /\ UNCHANGED writes
    /\ writeCall' = NoCall
    /\ UNCHANGED <<nodeVars, convVars, readVars, nextTx, builderPc, builderBlock, tickLog, built, chan, pubPc, batch,
                   dist, newDist, idx, flag, skipped, da, daHead, submitCalls, passNo, restarts>>

\* the DA network makes a block: the head height grows
DaHeadAdvances ==
    /\ daHead < MaxHead
    /\ daHead' = daHead + 1
    /\ UNCHANGED <<nodeVars, convVars, readVars, rpcVars, mempool, nextTx, writes, builderPc, builderBlock, tickLog, built,
                   chan, pubPc, batch, dist, newDist, idx, flag, skipped, da, submitCalls,
                   passNo, restarts>>

\* stream_write_blob: unimplemented!("stream_write_blob") panics in the
\* handler, the call ends without a response of the service
StreamWriteBlob ==
    /\ Len(rpcErrors) < MaxRpcErrors
    /\ rpcErrors' = Append(rpcErrors, RpcError("stream_write_blob", "unimplemented!", "panic", {}))
    /\ UNCHANGED <<nodeVars, convVars, readVars, mempool, nextTx, writes, builderPc, builderBlock, tickLog, built, chan, pubPc,
                   batch, dist, newDist, idx, flag, skipped, da, daHead, submitCalls, passNo,
                   restarts, writeCall>>

(***************************************************************************)
(* GcCounter (util/collections/src/garbage/counted.rs): a count kept in    *)
(* time slots, slot = time / gc_slot_duration_ms, whose old slots gc       *)
(* drops.  The counter is one object driven by its caller; the history     *)
(* variables record what the caller asked for.                             *)
(***************************************************************************)
MaxCalls == 5
MaxTime == 110
MaxEarly == 10

\* the parameters of the test of counted.rs
TestTtl == 100
TestSlot == 10

\* Duration is a strictly positive number of milliseconds; the counter is
\* built with one of these <<value_ttl_ms, gc_slot_duration_ms>>
Durations == {<<TestTtl, TestSlot>>, <<15, 10>>}

\* the times the caller passes: a few around zero, every 5 ms so that two
\* times share a slot, and a few from the test's ttl on
Times == {t \in 0..MaxTime : \/ t <= MaxEarly /\ t % 5 = 0
                             \/ t >= TestTtl /\ t % 10 = 0}

NoGc == -1

\* u64 arithmetic wraps at 2^64, beyond the integers of the checker; the
\* model wraps at 2^30, which like 2^64 lies above every slot a time of the
\* model falls in
U64Modulus == 2^30

WrappingSub(a, b) == (a - b) % U64Modulus

RECURSIVE SumOver(_, _)
SumOver(f, keys) ==
    IF keys = {} THEN 0
    ELSE LET k == CHOOSE x \in keys : TRUE
         IN  f[k] + SumOver(f, keys \ {k})

\* get_count: the sum of the values of the map
get_count == SumOver(value_lifetimes, DOMAIN value_lifetimes)

SlotOf(t) == t \div gc_slot_duration_ms

\* GcCounter::new
GcCounterNew(ttl, slot) ==
    /\ value_ttl_ms = ttl
    /\ gc_slot_duration_ms = slot
    /\ value_lifetimes = << >>
    /\ counterPc = "ready"
    /\ incremented = [t \in Times |-> 0]
    /\ honored = 0
    /\ lastGc = NoGc
    /\ collected = 0

\* the calls made that changed the count
Calls == SumOver(incremented, Times) + honored

\* an increment that always inserts 1 for the slot, as if the slot were new
IncrementOverwrites(current_time_ms) ==
    /\ counterPc = "ready"
    /\ Calls < MaxCalls
    /\ LET slot == SlotOf(current_time_ms)
       IN  value_lifetimes' =
               [s \in DOMAIN value_lifetimes \cup {slot} |->
                   IF s = slot THEN 1 ELSE value_lifetimes[s]]
    /\ incremented' = [incremented EXCEPT ![current_time_ms] = @ + 1]
    /\ UNCHANGED <<seqVars, stream, readerPc, executeCalls, postCalls, pending, events,
                   eventsPc, finalizeCalls, finalized, writerVars, executorPc,
                   value_ttl_ms, gc_slot_duration_ms, overflowChecks, counterPc,
                   honored, lastGc, collected, setVars>>

\* increment(current_time_ms)
Increment(current_time_ms) ==
    /\ counterPc = "ready"
    /\ Calls < MaxCalls
    /\ LET slot == SlotOf(current_time_ms)
       IN  value_lifetimes' =
               IF slot \in DOMAIN value_lifetimes
               THEN [value_lifetimes EXCEPT ![slot] = @ + 1]
               ELSE [s \in DOMAIN value_lifetimes \cup {slot} |->
                        IF s = slot THEN 1 ELSE value_lifetimes[s]]
    /\ incremented' = [incremented EXCEPT ![current_time_ms] = @ + 1]
    /\ UNCHANGED <<seqVars, stream, readerPc, executeCalls, postCalls, pending, events,
                   eventsPc, finalizeCalls, finalized, writerVars, executorPc,
                   value_ttl_ms, gc_slot_duration_ms, overflowChecks, counterPc,
                   honored, lastGc, collected, setVars>>

\* a decrement that lowers the newest slot holding a unit
LastLive(lifetimes) ==
    {s \in DOMAIN lifetimes :
        lifetimes[s] > 0 /\ \A k \in DOMAIN lifetimes : k > s => lifetimes[k] = 0}

\* the slot decrement() lowers: the first one, in key order, whose count is
\* above zero
FirstLive(lifetimes) ==
    {s \in DOMAIN lifetimes :
        lifetimes[s] > 0 /\ \A k \in DOMAIN lifetimes : k < s => lifetimes[k] = 0}

\* decrement()
Decrement ==
    /\ counterPc = "ready"
    /\ Calls < MaxCalls
    /\ IF FirstLive(value_lifetimes) = {}
       THEN UNCHANGED <<value_lifetimes, honored>>
       ELSE /\ \E s \in FirstLive(value_lifetimes) :
                  value_lifetimes' = [value_lifetimes EXCEPT ![s] = @ - 1]
            /\ honored' = honored + 1
    /\ UNCHANGED <<seqVars, stream, readerPc, executeCalls, postCalls, pending, events,
                   eventsPc, finalizeCalls, finalized, writerVars, executorPc,
                   value_ttl_ms, gc_slot_duration_ms, overflowChecks, counterPc,
                   incremented, lastGc, collected, setVars>>

\* the keys strictly below the cutoff
SlotsBelow(lifetimes, slot_cutoff) ==
    {s \in DOMAIN lifetimes : \A k \in DOMAIN lifetimes : k <= s => k < slot_cutoff}

\* the keys keys().take_while(|slot| **slot <= slot_cutoff) yields: the keys
\* in ascending order up to the first one above the cutoff
SlotsToRemove(lifetimes, slot_cutoff) ==
    {s \in DOMAIN lifetimes : \A k \in DOMAIN lifetimes : k <= s => k <= slot_cutoff}

\* gc(current_time_ms).  gc_slot - ttl/slot is a u64 subtraction: below zero
\* it panics in a build with overflow checks and wraps in one without.
Gc(current_time_ms) ==
    /\ counterPc = "ready"
    /\ LET gc_slot == SlotOf(current_time_ms)
           ttl_slots == value_ttl_ms \div gc_slot_duration_ms
       IN  IF gc_slot < ttl_slots /\ overflowChecks
           THEN /\ counterPc' = "panicked"
                /\ UNCHANGED <<value_lifetimes, lastGc, collected>>
           ELSE LET slot_cutoff == WrappingSub(gc_slot, ttl_slots)
                    slots_to_remove == SlotsToRemove(value_lifetimes, slot_cutoff)
                IN  /\ value_lifetimes' =
                           [s \in DOMAIN value_lifetimes \ slots_to_remove |->
                               value_lifetimes[s]]
                    /\ lastGc' = current_time_ms
                    /\ collected' = collected + SumOver(value_lifetimes, slots_to_remove)
                    /\ UNCHANGED counterPc
    /\ UNCHANGED <<seqVars, stream, readerPc, executeCalls, postCalls, pending, events,
                   eventsPc, finalizeCalls, finalized, writerVars, executorPc,
                   value_ttl_ms, gc_slot_duration_ms, overflowChecks,
                   incremented, honored, setVars>>

(***************************************************************************)
(* GcSet (util/collections/src/garbage/set.rs): a set of values kept in    *)
(* the same time slots.  The set of the model is built with the durations  *)
(* of the counter and runs in the same build.                              *)
(***************************************************************************)
MaxSetWrites == 3

\* Value(1), Value(2) of the test of set.rs
Values == {1, 2}

NoWrite == [op |-> "none", t |-> -1]
NoGcSince == [lo |-> -1, hi |-> -1]

\* GcSet::new
GcSetNew ==
    /\ set_lifetimes = << >>
    /\ setPc = "ready"
    /\ lastWrite = [v \in Values |-> NoWrite]
    /\ gcSince = [v \in Values |-> NoGcSince]
    /\ setLastGc = NoGc
    /\ slidFrom = [v \in Values |-> -1]
    /\ setWrites = 0

\* contains(value): some bucket holds the value
contains(value) == \E s \in DOMAIN set_lifetimes : value \in set_lifetimes[s]

\* a remove_value that leaves the value in the bucket it was in
KeepInOldBucket(lifetimes, value) == lifetimes

\* a remove_value that looks into the bucket of the newest slot only
RemoveFromNewestBucket(lifetimes, value) ==
    IF DOMAIN lifetimes = {} THEN lifetimes
    ELSE LET s == CHOOSE h \in DOMAIN lifetimes : \A k \in DOMAIN lifetimes : k <= h
         IN  [lifetimes EXCEPT ![s] = @ \ {value}]

\* remove_value(value) on a map: the buckets are visited from the newest
\* slot down, and the first one that held the value ends the walk
RemoveValueFrom(lifetimes, value) ==
    LET holders == {s \in DOMAIN lifetimes : value \in lifetimes[s]}
    IN  IF holders = {} THEN lifetimes
        ELSE LET s == CHOOSE h \in holders : \A k \in holders : k <= h
             IN  [lifetimes EXCEPT ![s] = @ \ {value}]

\* entry(slot).or_insert_with(HashSet::new).insert(value)
InsertInto(lifetimes, slot, value) ==
    [s \in DOMAIN lifetimes \cup {slot} |->
        IF s = slot
        THEN (IF slot \in DOMAIN lifetimes THEN lifetimes[slot] ELSE {}) \cup {value}
        ELSE lifetimes[s]]

\* the newest slot whose bucket holds the value (-1: none)
HolderOf(lifetimes, value) ==
    LET holders == {s \in DOMAIN lifetimes : value \in lifetimes[s]}
    IN  IF holders = {} THEN -1
        ELSE CHOOSE h \in holders : \A k \in holders : k <= h

\* remove_value(value)
RemoveValue(value) ==
    /\ setPc = "ready"
    /\ setWrites < MaxSetWrites
    /\ setWrites' = setWrites + 1
    /\ set_lifetimes' = RemoveValueFrom(set_lifetimes, value)
    /\ lastWrite' = [lastWrite EXCEPT ![value] = [op |-> "remove", t |-> -1]]
    /\ gcSince' = [gcSince EXCEPT ![value] = NoGcSince]
    /\ slidFrom' = [slidFrom EXCEPT ![value] = -1]
    /\ UNCHANGED <<seqVars, stream, readerPc, executeCalls, postCalls, pending, events,
                   eventsPc, finalizeCalls, finalized, writerVars, executorPc,
                   value_ttl_ms, gc_slot_duration_ms, overflowChecks, counterVars,
                   setPc, setLastGc>>

\* insert(value, current_time_ms)
Insert(value, current_time_ms) ==
    /\ setPc = "ready"
    /\ setWrites < MaxSetWrites
    /\ setWrites' = setWrites + 1
    /\ set_lifetimes' = InsertInto(RemoveValueFrom(set_lifetimes, value),
                                   SlotOf(current_time_ms), value)
    /\ lastWrite' = [lastWrite EXCEPT ![value] = [op |-> "insert", t |-> current_time_ms]]
    /\ gcSince' = [gcSince EXCEPT ![value] = NoGcSince]
    /\ slidFrom' = [slidFrom EXCEPT ![value] = HolderOf(set_lifetimes, value)]
    /\ UNCHANGED <<seqVars, stream, readerPc, executeCalls, postCalls, pending, events,
                   eventsPc, finalizeCalls, finalized, writerVars, executorPc,
                   value_ttl_ms, gc_slot_duration_ms, overflowChecks, counterVars,
                   setPc, setLastGc>>

\* the record of the gc calls since an insert, with one more call added
GcSinceWith(since, now) ==
    IF since = NoGcSince THEN [lo |-> now, hi |-> now]
    ELSE [lo |-> IF now < since.lo THEN now ELSE since.lo,
          hi |-> IF now > since.hi THEN now ELSE since.hi]

\* GcSet::gc(current_time_ms): the body of GcCounter::gc over the buckets
SetGc(current_time_ms) ==
    /\ setPc = "ready"
    /\ LET gc_slot == SlotOf(current_time_ms)
           ttl_slots == value_ttl_ms \div gc_slot_duration_ms
       IN  IF gc_slot < ttl_slots /\ overflowChecks
           THEN /\ setPc' = "panicked"
                /\ UNCHANGED <<set_lifetimes, gcSince, setLastGc>>
           ELSE LET slot_cutoff == WrappingSub(gc_slot, ttl_slots)
                    slots_to_remove == SlotsToRemove(set_lifetimes, slot_cutoff)
                IN  /\ set_lifetimes' =
                           [s \in DOMAIN set_lifetimes \ slots_to_remove |->
                               set_lifetimes[s]]
                    /\ gcSince' = [v \in Values |->
                                      IF lastWrite[v].op = "insert"
                                      THEN GcSinceWith(gcSince[v], current_time_ms)
                                      ELSE gcSince[v]]
                    /\ setLastGc' = current_time_ms
                    /\ UNCHANGED setPc
    /\ UNCHANGED <<seqVars, stream, readerPc, executeCalls, postCalls, pending, events,
                   eventsPc, finalizeCalls, finalized, writerVars, executorPc,
                   value_ttl_ms, gc_slot_duration_ms, overflowChecks, counterVars,
                   lastWrite, slidFrom, setWrites>>

NextSet ==
    \/ \E v \in Values, t \in Times : Insert(v, t)
    \/ \E v \in Values : RemoveValue(v)
    \/ \E t \in Times : SetGc(t)

\* the counter of the test, in a build with overflow checks
TestCounter == GcCounterNew(TestTtl, TestSlot) /\ GcSetNew /\ overflowChecks = TRUE

\* a counter just built, with any of the parameters, in either build
InitCounter ==
    /\ InitSeq
    /\ InitNode
    /\ \E d \in Durations : GcCounterNew(d[1], d[2])
    /\ GcSetNew
    /\ overflowChecks \in BOOLEAN

\* a set just built, likewise
InitSet == InitCounter

NextCounter ==
    \/ \E t \in Times : Increment(t)
    \/ Decrement
    \/ \E t \in Times : Gc(t)

SpecCounter == InitCounter /\ [][NextCounter]_vars

SpecSet == InitSet /\ [][NextSet]_vars

\* the two containers, one of them in use: the other stays as it was built;
\* the runs are two calls shorter than those of SpecCounter and one write
\* shorter than those of SpecSet
CounterAsBuilt == Calls = 0 /\ counterPc = "ready" /\ lastGc = NoGc
SetAsBuilt == setWrites = 0 /\ setPc = "ready" /\ setLastGc = NoGc

NextGc ==
    \/ SetAsBuilt /\ Calls < MaxCalls - 2 /\ \E t \in Times : Increment(t)
    \/ SetAsBuilt /\ Calls < MaxCalls - 2 /\ Decrement
    \/ SetAsBuilt /\ \E t \in Times : Gc(t)
    \/ CounterAsBuilt /\ setWrites < MaxSetWrites - 1 /\ \E v \in Values, t \in Times : Insert(v, t)
    \/ CounterAsBuilt /\ \E t \in Times : SetGc(t)

SpecGc == InitCounter /\ [][NextGc]_vars

Init == InitSeq /\ InitNode /\ TestCounter

NextSeq ==
    \/ BatchWrite
    \/ TickBuildBlocks
    \/ SendBlock
    \/ BuilderError
    \/ ReadBlocksRecv
    \/ ReadBlocksEnd
    \/ PublisherError
    \/ Distribute
    \/ CallbackSkip
    \/ CallbackSubmitOk
    \/ CallbackSubmitErr

Spec == Init /\ [][NextSeq]_vars

NextNode ==
    \/ ReaderTakeBlob
    \/ ReaderPost
    \/ ReaderStreamEnd
    \/ ReadCommitmentEvent
    \/ CommitmentStreamStops

SpecNode == Init /\ [][NextNode]_vars

\* run_executor with its two joined tasks, and the commitment-event stream
\* stopping
NextExecutor ==
    \/ SubmitTransaction
    \/ WriterTick
    \/ ReaderTakeBlob
    \/ ReaderPost
    \/ ReaderStreamEnd
    \/ CommitmentStreamStops

SpecExecutor == Init /\ [][NextExecutor]_vars

\* one tick of the writer in time
SpecWindow == Init /\ [][NextWindow]_vars

\* one tick of the publisher in time
SpecRead == Init /\ [][NextRead]_vars

\* the mempool holds a backlog of transactions, each written by its own
\* batch_write, and neither task has started
InitBuilder ==
    /\ InitNode
    /\ TestCounter
    /\ mempool = [i \in 1..MaxBacklog |-> [id |-> i, size |-> 400000]]
    /\ nextTx = MaxBacklog + 1
    /\ writes = [i \in 1..MaxBacklog |->
                    [txs |-> <<[id |-> i, size |-> 400000]>>,
                     intents |-> <<MakeSequencedBlobIntent(JsonEncode([id |-> i, size |-> 400000]), 0)>>]]
    /\ builderPc = "wait"
    /\ builderBlock = NoBlock
    /\ tickLog = <<>>
    /\ built = <<>>
    /\ chan = <<>>
    /\ pubPc = "read"
    /\ batch = <<>>
    /\ dist = <<>>
    /\ newDist = <<>>
    /\ idx = 1
    /\ flag = FALSE
    /\ skipped = 0
    /\ da = <<>>
    /\ daHead = 0
    /\ submitCalls = <<>>
    /\ passNo = 0
    /\ restarts = 0
    /\ writeCall = NoCall
    /\ rpcErrors = <<>>
    /\ NoConversion
    /\ readPc = "recv"
    /\ readClock = 0
    /\ readBlocks = <<>>

\* the builder's ticks, its send, the publisher taking blocks off the
\* channel, and the restart of both tasks after an error of either
NextBuilder ==
    \/ TickBuildBlocks
    \/ TickBuildNone
    \/ SendBlock
    \/ ReadBlocksRecv
    \/ BuilderError
    \/ PublisherError

\* the block builder on a backlog
SpecBuilder == InitBuilder /\ [][NextBuilder]_vars

\* to_sequenced_blob_block is handed any BlobResponse
InitConvert ==
    /\ InitNode
    /\ TestCounter
    /\ mempool = <<>>
    /\ nextTx = 1
    /\ writes = <<>>
    /\ builderPc = "wait"
    /\ builderBlock = NoBlock
    /\ tickLog = <<>>
    /\ built = <<>>
    /\ chan = <<>>
    /\ pubPc = "read"
    /\ batch = <<>>
    /\ dist = <<>>
    /\ newDist = <<>>
    /\ idx = 1
    /\ flag = FALSE
    /\ skipped = 0
    /\ da = <<>>
    /\ daHead = 0
    /\ submitCalls = <<>>
    /\ passNo = 0
    /\ restarts = 0
    /\ writeCall = NoCall
    /\ rpcErrors = <<>>
    /\ blob_response \in BlobResponses
    /\ sequenced = NotCalled
    /\ resequenced = NotCalled
    /\ readPc = "recv"
    /\ readClock = 0
    /\ readBlocks = <<>>

ConvFrame ==
    UNCHANGED <<nodeVars, rpcVars, readVars, mempool, nextTx, writes, builderPc, builderBlock,
                tickLog, built, chan, pubPc, batch, dist, newDist, idx, flag, skipped, da,
                daHead, submitCalls, passNo, restarts, blob_response>>

\* to_sequenced_blob_block(blob_response)
ToSequencedBlobBlock ==
    /\ sequenced = NotCalled
    /\ sequenced' = to_sequenced_blob_block(blob_response)
    /\ UNCHANGED resequenced
    /\ ConvFrame

\* to_sequenced_blob_block on the response an earlier call returned
ToSequencedBlobBlockAgain ==
    /\ sequenced.ok
    /\ resequenced = NotCalled
    /\ resequenced' = to_sequenced_blob_block(sequenced.value)
    /\ UNCHANGED sequenced
    /\ ConvFrame

NextConvert ==
    \/ ToSequencedBlobBlock
    \/ ToSequencedBlobBlockAgain

SpecConvert == InitConvert /\ [][NextConvert]_vars

\* the writer and the reader around the DA client lock
SpecLock == Init /\ [][NextLock]_vars

\* the light-node service: its write calls and the DA head
NextWrite ==
    \/ BatchWriteHeadFails
    \/ BatchWriteBegin
    \/ BatchWriteEnd
    \/ DaHeadAdvances
    \/ StreamWriteBlob

SpecWrite == Init /\ [][NextWrite]_vars

(***************************************************************************)
(* submit_with_heuristic on its own: the publisher has read a batch and    *)
(* runs the heuristic stack over it, nothing else moves.                   *)
(***************************************************************************)
\* the ways to cut n transactions into consecutive blocks of at most
\* MaxBlockSize transactions
BlockLens(n) ==
    {lens \in UNION {[1..k -> 1..MaxBlockSize] : k \in 1..n} :
        SumSizes([i \in 1..Len(lens) |-> [size |-> lens[i]]]) = n}

\* the blocks the builder makes of the transactions txs, cut as lens says
BlocksOf(txs, lens) ==
    [i \in 1..Len(lens) |->
        LET start == 1 + SumSizes([j \in 1..(i - 1) |-> [size |-> lens[j]]])
        IN  Block(SubSeq(txs, start, start + lens[i] - 1))]

\* the state in which read_blocks holds the batch blocks: every transaction
\* was written by a batch_write of its own, the builder built and sent the
\* blocks, the publisher received them
PublisherHolds(txs, blocks) ==
    /\ mempool = <<>>
    /\ nextTx = Len(txs) + 1
    /\ writes = [i \in 1..Len(txs) |->
                    [txs |-> <<txs[i]>>,
                     intents |-> <<MakeSequencedBlobIntent(JsonEncode(txs[i]), 0)>>]]
    /\ builderPc = "wait"
    /\ builderBlock = NoBlock
    /\ tickLog = [i \in 1..Len(blocks) |-> [uid |-> FetchAdd(i - 1), block |-> blocks[i]]]
    /\ built = blocks
    /\ chan = <<>>
    /\ pubPc = "read"
    /\ batch = blocks
    /\ dist = <<>>
    /\ newDist = <<>>
    /\ idx = 1
    /\ flag = FALSE
    /\ skipped = 0
    /\ da = <<>>
    /\ daHead = 0
    /\ submitCalls = <<>>
    /\ passNo = 0
    /\ restarts = 0
    /\ writeCall = NoCall
    /\ rpcErrors = <<>>
    /\ NoConversion
    /\ readPc = "recv"
    /\ readClock = 0
    /\ readBlocks = <<>>

InitPublish ==
    /\ InitNode
    /\ TestCounter
    /\ \E n \in 1..MaxTx : \E sizes \in [1..n -> TxSizes] : \E lens \in BlockLens(n) :
          LET txs == [i \in 1..n |-> [id |-> i, size |-> sizes[i]]]
          IN  PublisherHolds(txs, BlocksOf(txs, lens))

NextPublish ==
    \/ ReadBlocksEnd
    \/ Distribute
    \/ CallbackSkip
    \/ CallbackSubmitOk
    \/ CallbackSubmitErr

SpecPublish == InitPublish /\ [][NextPublish]_vars


(***************************************************************************)
(* Claims about the sequencer, checked under Spec.                         *)
(***************************************************************************)
\* the transactions of the successful batch_write calls, in request order
WrittenTxs == Flatten([i \in 1..Len(writes) |-> writes[i].txs])

\* the transactions the DA stream carries, blob after blob
DaTxs == Flatten([i \in 1..Len(da) |-> da[i].data.value.value.transactions])

\* the sequencer holds nothing: every written transaction has been built into
\* a block and every block has left the publisher
Quiescent ==
    /\ mempool = <<>>
    /\ builderPc = "wait"
    /\ chan = <<>>
    /\ pubPc = "read"
    /\ batch = <<>>

\* the intent height batch_write returned for transaction tx
IntentHeight(tx) ==
    LET w == CHOOSE i \in 1..Len(writes) : tx \in Range(writes[i].txs)
    IN  writes[w].intents[1].height

\* C1: after a successful batch_write exactly the written transactions appear
\* in the DA stream: never one twice, and once the sequencer has worked off
\* everything it was given, all of them, in request order, each at a height at
\* or above the height of its intent.
C1_BatchWriteSequenced ==
    /\ \A i, j \in 1..Len(DaTxs) : i # j => DaTxs[i] # DaTxs[j]
    /\ Quiescent =>
        /\ DaTxs = WrittenTxs
        /\ \A i \in 1..Len(da) :
              \A tx \in Range(da[i].data.value.value.transactions) :
                  da[i].height >= IntentHeight(tx)

\* position of the block of a DA blob in the builder's output
BuiltIndex(block) == CHOOSE i \in 1..Len(built) : built[i] = block

\* C2: the blobs reach the DA in the order in which the builder produced
\* their blocks, and in the outcomes of a pass the groups that were submitted
\* are a prefix: the first failed group and every group after it are retried.
C2_PublisherPreservesOrder ==
    /\ \A i, j \in 1..Len(da) :
          i < j => BuiltIndex(da[i].data.value.value) <= BuiltIndex(da[j].data.value.value)
    /\ \A g, h \in 1..Len(newDist) :
          (g < h /\ AllSucceeded(newDist[h])) => AllSucceeded(newDist[g])

\* the sequencer still holds block b
HeldBySequencer(b) ==
    \/ builderBlock = b
    \/ b \in Range(chan)
    \/ b \in Range(batch)

\* a blob carrying block b has been submitted successfully
SubmittedToDa(b) == \E i \in 1..Len(da) : da[i].data.value.value = b

\* C4: every block wait_for_next_block returned is still held by the
\* sequencer (builder, channel, publisher's batch) or has been submitted
\* successfully to the DA, also across restarts of the two tasks.
C4_NoBuiltBlockLost ==
    \A i \in 1..Len(built) : HeldBySequencer(built[i]) \/ SubmittedToDa(built[i])

\* the blobs of the successful submit_blocks calls
SubmittedOkBlobs ==
    Flatten([i \in 1..Len(submitCalls) |->
        IF submitCalls[i].ok
        THEN [k \in 1..Len(submitCalls[i].blocks) |-> submitCalls[i].blocks[k].blob]
        ELSE <<>>])

\* C5: every transaction is in the payload of at most one successfully
\* submitted blob, over all passes of the stack.
C5_NoDoubleSequencing ==
    \A i, j \in 1..Len(SubmittedOkBlobs) :
        i # j =>
            Range(BlobBlock(SubmittedOkBlobs[i]).transactions)
                \cap Range(BlobBlock(SubmittedOkBlobs[j]).transactions) = {}

\* the wrapped blocks that exist in the publisher
LiveWrappedBlocks ==
    {o.item : o \in {p \in Range(Flatten(dist)) \cup Range(Flatten(newDist)) :
                        p.label # "Success"}}

\* C6: every wrapped block satisfies decompress(blob.data) = encode(block).
C6_BlobMatchesBlock ==
    \A wb \in LiveWrappedBlocks : ZstdDecompress(wb.blob.data) = BcsEncode(wb.block)

\* the publisher retries a batch made of one block of two transactions whose
\* blob is heavier than the capacity
RetryOfOversizeBlock ==
    /\ pubPc = "callback"
    /\ passNo = 2
    /\ Len(batch) = 1
    /\ Len(batch[1].transactions) = 2
    /\ Weight(WrappedBlockTryNew(batch[1])) > Capacity

\* C7: the retry pass over one oversize block yields exactly two sub-blocks,
\* each weighing at most the capacity and each holding half of the
\* transactions in the original order, offered for submission.
C7_SplitOnOversize ==
    RetryOfOversizeBlock =>
        LET items == Flatten(dist)
        IN  /\ Len(items) = 2
            /\ \A i \in 1..2 :
                  /\ items[i].label = "Apply"
                  /\ Weight(items[i].item) <= Capacity
                  /\ items[i].item.block.transactions = <<batch[1].transactions[i]>>

\* total weight of a group of wrapped blocks
BlocksWeight(blocks) == SumSizes([i \in 1..Len(blocks) |-> [size |-> Weight(blocks[i])]])

\* C8: every group passed to submit_blocks weighs at most the capacity, and
\* in the distribution the bin-packing produced every block heavier than the
\* capacity is labelled Failure.
C8_SubmittedGroupsWithinCapacity ==
    /\ \A i \in 1..Len(submitCalls) : BlocksWeight(submitCalls[i].blocks) <= Capacity
    /\ pubPc = "callback" =>
          \A o \in Range(Flatten(dist)) : Weight(o.item) > Capacity => o.label = "Failure"


\* the first group whose outcome is not all Success, 0 when there is none
FirstNotSucceeded(outcomes) ==
    LET bad == {g \in 1..Len(outcomes) : ~AllSucceeded(outcomes[g])}
    IN  IF bad = {} THEN 0 ELSE CHOOSE g \in bad : \A h \in bad : g <= h

\* outcomes the callback returned for the first groups of a pass: the first
\* group that did not succeed came back as Apply with all its blocks, every
\* group after it came back as failures with all its blocks, and the failed
\* submission is the last call of submit_blocks
StickyOutcomes(groups, outcomes, calls, pass) ==
    LET f == FirstNotSucceeded(outcomes)
    IN  f # 0 =>
            /\ outcomes[f] = NewApply(IntoOriginal(groups[f]))
            /\ \A h \in (f + 1)..Len(outcomes) : outcomes[h] = ToFailures(groups[h])
            /\ calls # <<>>
            /\ calls[Len(calls)] = [blocks |-> IntoOriginal(groups[f]), ok |-> FALSE,
                                    pass |-> pass, group |-> f]

\* the blocks of the groups f.. of a pass, in order
BlocksFrom(groups, f) ==
    Flatten([k \in 1..(Len(groups) - f + 1) |-> IntoOriginal(groups[f + k - 1])])

\* the step that ends a pass with a failure: what the next pass is offered,
\* once relabelled, is Apply of every block of the failed group and of the
\* groups after it, in their order
C3_RetryStep ==
    (pubPc = "callback" /\ pubPc' = "distribute") =>
        /\ StickyOutcomes(dist, dist', submitCalls', passNo)
        /\ Flatten(ToApply(DropSuccess(dist')))
              = NewApply(BlocksFrom(dist, FirstNotSucceeded(dist')))

\* a batch of three blocks under the capacity is in its first pass and the
\* last submission, one that holds block #2, has failed
DaFailedSecondOfThree ==
    /\ pubPc \in {"callback", "distribute"}
    /\ passNo = 1
    /\ Len(batch) = 3
    /\ \A b \in 1..3 : Weight(WrappedBlockTryNew(batch[b])) <= Capacity
    /\ submitCalls # <<>>
    /\ ~submitCalls[Len(submitCalls)].ok
    /\ submitCalls[Len(submitCalls)].pass = 1
    /\ WrappedBlockTryNew(batch[2]) \in Range(submitCalls[Len(submitCalls)].blocks)

\* block #1 is submitted, #2 and #3 are not
FirstOfThreeSubmitted ==
    /\ SubmittedToDa(batch[1])
    /\ ~SubmittedToDa(batch[2])
    /\ ~SubmittedToDa(batch[3])

SecondGroupOfThreeFailed ==
    /\ pubPc = "callback"
    /\ passNo = 1
    /\ Len(batch) = 3
    /\ dist = [g \in 1..3 |-> <<Apply(WrappedBlockTryNew(batch[g]))>>]
    /\ idx = 3
    /\ submitCalls # <<>>
    /\ submitCalls[Len(submitCalls)] =
          [blocks |-> <<WrappedBlockTryNew(batch[2])>>, ok |-> FALSE, pass |-> 1, group |-> 2]

\* from there the pass ends with #2 and #3 returned and nothing submitted
C3_ExampleStep ==
    (SecondGroupOfThreeFailed /\ pubPc' = "distribute") =>
        /\ dist' = << <<Success>>, <<Apply(WrappedBlockTryNew(batch[2]))>>,
                      <<Failure(WrappedBlockTryNew(batch[3]))>> >>
        /\ da' = da
        /\ submitCalls' = submitCalls

AcceptedHeights ==
    LET acc == SelectSeq(events, LAMBDA e : e.kind = "Accepted")
    IN  [i \in 1..Len(acc) |-> acc[i].height]

\* C9: set_finalized_block_height is called exactly once, with c.height, for
\* every Accepted(c) taken from the event stream, and never otherwise.
C9_FinalizeIffAccepted == finalizeCalls = AcceptedHeights

\* an Accepted and a Rejected event have been taken, one call was made
C9_Witness ==
    /\ Len(events) = 2
    /\ \E i \in 1..2 : events[i].kind = "Rejected"
    /\ \E i \in 1..2 : events[i].kind = "Accepted"
    /\ Len(finalizeCalls) = 1

\* read_blocks_from_da has returned an error
ReaderFailed ==
    readerPc \in {"failed_blob", "failed_metadata", "failed_execute", "failed_post"}

\* the blob is a SequencedBlobBlock whose bytes decode
WellFormed(resp) == IsSequencedBlobBlock(resp) /\ Decodes(resp)

\* the commitments posted are those the executor returned, in order, and at
\* most the last executed block waits for its post
PostsFollowExecutes ==
    /\ Len(postCalls) <= Len(executeCalls)
    /\ Len(executeCalls) <= Len(postCalls) + 1
    /\ \A i \in 1..Len(postCalls) : postCalls[i] = CommitmentOf(i, executeCalls[i])
    /\ Len(executeCalls) = Len(postCalls) + 1 <=> readerPc \in {"executed", "failed_execute"}

\* C10 as stated: every blob taken from the stream has its one
\* execute_block_opt call, in stream order, followed by its one
\* post_block_commitment call unless execute or post failed.
C10_EveryBlobExecuted ==
    /\ Len(executeCalls) = Len(stream)
    /\ \A i \in 1..Len(executeCalls) : executeCalls[i] = ExecutableBlockOf(stream[i])
    /\ PostsFollowExecutes

\* the calls of the consumer follow the stream: the blobs executed are the
\* blobs taken, in order, all well formed, and the blob taken last is without
\* a call exactly when its validation or build_block_metadata failed
C10_Calls ==
    /\ Len(executeCalls) <= Len(stream)
    /\ Len(stream) <= Len(executeCalls) + 1
    /\ \A i \in 1..Len(executeCalls) :
          WellFormed(stream[i]) /\ executeCalls[i] = ExecutableBlockOf(stream[i])
    /\ Len(stream) = Len(executeCalls) + 1 <=> readerPc \in {"failed_blob", "failed_metadata"}
    /\ readerPc = "failed_blob" => ~WellFormed(stream[Len(stream)])
    /\ readerPc = "failed_metadata" => WellFormed(stream[Len(stream)])
    /\ PostsFollowExecutes

\* a block is executed only when every earlier commitment has been posted,
\* and after a failure nothing more is taken, executed or posted
C10_Step ==
    /\ executeCalls' # executeCalls =>
          Len(postCalls) = Len(executeCalls) /\ readerPc = "next"
    /\ ReaderFailed =>
          /\ readerPc' = readerPc
          /\ stream' = stream
          /\ executeCalls' = executeCalls
          /\ postCalls' = postCalls

\* C10 amended: every blob taken that is well formed and whose block metadata
\* is built leads to one execute_block_opt call and then one
\* post_block_commitment call with the commitment returned, in stream order,
\* the next blob is not executed before that; a failure of the validation,
\* the decoding, build_block_metadata, execute or post ends the consumer.
C10_ConsumerSequential == []C10_Calls /\ [][C10_Step]_vars

\* the first blob was executed and its commitment posted, the second was
\* executed and the consumer then failed posting its commitment
C10_Witness ==
    /\ Len(executeCalls) = 2
    /\ Len(postCalls) = 2
    /\ readerPc = "failed_post"

\* the id the builder's Block carries: a digest of its own content
BuilderBlockId(block) == [hash |-> "block_id", of |-> block.transactions]

\* C11: the executable block made of a blob whose block has n user
\* transactions has n+1 transactions: a BlockMetadata built from the hash of
\* the blob id and the blob timestamp, then the n user transactions as
\* UserTransaction in the block's order; its id is the hash of the blob bytes,
\* not the builder's block id.
C11_ExecutableBlockShape ==
    \A i \in 1..Len(executeCalls) :
        LET resp == stream[i]
            block == JsonDecode(resp.data).value
            n == Len(block.transactions)
            executable == executeCalls[i]
        IN  /\ Len(executable.transactions) = n + 1
            /\ executable.transactions[1] =
                  [kind |-> "BlockMetadata", parent |-> Sha3Of(resp.blob_id),
                   timestamp |-> resp.timestamp]
            /\ \A k \in 1..n :
                  executable.transactions[k + 1] =
                     [kind |-> "UserTransaction",
                      signed |-> JsonDecode(block.transactions[k].payload).value]
            /\ executable.block_id = Sha256Of(resp.data)
            /\ executable.block_id # BuilderBlockId(block)

\* a blob whose block has two user transactions was executed
C11_Witness ==
    \E i \in 1..Len(executeCalls) :
        /\ Len(JsonDecode(stream[i].data).value.transactions) = 2
        /\ Len(executeCalls[i].transactions) = 3

\* the response has no blob, no blob type, a variant other than
\* SequencedBlobBlock, or bytes that do not decode to a Block
Malformed(resp) ==
    \/ ~resp.has_blob
    \/ resp.blob_type = "None"
    \/ resp.blob_type # "SequencedBlobBlock"
    \/ ~JsonDecode(resp.data).ok

\* C12: a malformed response ends read_blocks_from_da with an error: it is
\* the last one taken, the executor is not called for it and no commitment
\* is posted for it.
C12_MalformedBlobIsFatal ==
    \A i \in 1..Len(stream) :
        Malformed(stream[i]) =>
            /\ i = Len(stream)
            /\ readerPc = "failed_blob"
            /\ Len(executeCalls) = i - 1
            /\ Len(postCalls) = i - 1

\* a first blob was executed and posted, the second is a SequencedBlobBlock
\* whose bytes do not decode, and the consumer has failed
C12_Witness ==
    /\ Len(stream) = 2
    /\ Len(postCalls) = 1
    /\ stream[2].blob_type = "SequencedBlobBlock"
    /\ ~JsonDecode(stream[2].data).ok
    /\ readerPc = "failed_blob"

(***************************************************************************)
(* Claims about run_executor, checked under SpecExecutor.                  *)
(***************************************************************************)
\* an error of the writer or of the reader has ended run_executor with an
\* error, whatever the other task was doing
JoinedTasksFailFast ==
    (writerPc # "run" \/ ReaderFailed) => executorPc = "failed"

\* C13: when the writer, the reader or the commitment-event task has returned
\* an error, run_executor has exited with an error, without waiting for the
\* other tasks.
C13_DriverFailsFast ==
    /\ JoinedTasksFailFast
    /\ eventsPc = "failed" => executorPc = "failed"

(***************************************************************************)
(* More claims about the sequencer, checked under Spec.                    *)
(***************************************************************************)
\* C14: once the builder or the publisher has returned an error, the other
\* task is stopped and run_block_proposer has ended: neither task is at work
\* again, the builder holds no block and the publisher no batch.
C14_ProposerEndsOnFailure ==
    restarts > 0 =>
        /\ builderPc = "wait"
        /\ builderBlock = NoBlock
        /\ pubPc = "read"
        /\ batch = <<>>

(***************************************************************************)
(* Claims about the light-node service, checked under SpecWrite.           *)
(***************************************************************************)
\* the ids of the transactions in the mempool
MempoolIds == {mempool[k].id : k \in 1..Len(mempool)}

\* C15: a batch_write that fails because the head cannot be read, a blob
\* does not decode or publish_many fails returns an internal error and no
\* intents; in the first two cases no transaction of the request is in the
\* mempool.
C15_BatchWriteAllOrNothing ==
    \A i \in 1..Len(rpcErrors) :
        rpcErrors[i].rpc = "batch_write" =>
            /\ rpcErrors[i].cause \in {"head", "decode", "publish"}
            /\ rpcErrors[i].status = "internal"
            /\ rpcErrors[i].intents = <<>>
            /\ rpcErrors[i].cause \in {"head", "decode"} =>
                  rpcErrors[i].ids \cap MempoolIds = {}

\* a request of two blobs, one of them not decoding, has failed after an
\* earlier write had succeeded
C15_Witness ==
    /\ mempool # <<>>
    /\ \E i \in 1..Len(rpcErrors) :
          /\ rpcErrors[i].cause = "decode"
          /\ Cardinality(rpcErrors[i].ids) = 2

\* the responses of a successful batch_write are one SequencedBlobIntent per
\* blob of the request, in request order, carrying the blob's data, all
\* with the height h
IntentsFor(w, h) ==
    /\ Len(w.intents) = Len(w.blobs)
    /\ \A k \in 1..Len(w.intents) :
          /\ w.intents[k].blob_type = "SequencedBlobIntent"
          /\ w.intents[k].data = w.blobs[k].data
          /\ w.intents[k].height = h

\* C16 as stated: a successful batch_write of N blobs returns N intents, in
\* request order, each with the data of its blob, all with the DA head height
\* at the time the write is published to the mempool.
C16_IntentsAtAcceptance ==
    \A i \in 1..Len(writes) : IntentsFor(writes[i], writes[i].head)

\* C16 amended: a successful batch_write of N blobs returns N intents, in
\* request order, each with the data of its blob, all with the DA head
\* height the call read at its start, which is never above the head at the
\* time the write is published.
C16_IntentsAtHeadRead ==
    /\ \A i \in 1..Len(writes) :
          /\ IntentsFor(writes[i], writes[i].read)
          /\ writes[i].read <= writes[i].head
    /\ writeCall # NoCall => writeCall.height <= daHead

\* a write of two blobs was answered with the height read before the head
\* advanced
C16_Witness ==
    \E i \in 1..Len(writes) :
        /\ Len(writes[i].blobs) = 2
        /\ writes[i].read = writes[i].head - 1
        /\ IntentsFor(writes[i], writes[i].head - 1)

\* C17: every stream_write_blob call is answered to its caller with the
\* status Unimplemented.
C17_StreamWriteUnimplemented ==
    \A i \in 1..Len(rpcErrors) :
        rpcErrors[i].rpc = "stream_write_blob" => rpcErrors[i].status = "unimplemented"

(***************************************************************************)
(* More claims about the full-node driver, checked under SpecNode.         *)
(***************************************************************************)
\* C18: the decoding read_blocks_from_da applies to the bytes of a blob is
\* the inverse of the encoding WrappedBlock::try_new applies: a blob taken
\* from the stream whose bytes are the builder's encoding of a block b
\* decodes to b.
C18_ConsumerDecodesBuilderEncoding ==
    \A i \in 1..Len(stream) : \A b \in StreamBlocks :
        stream[i].data = WrappedBlockTryNew(b).blob.data =>
            /\ JsonDecode(stream[i].data).ok
            /\ JsonDecode(stream[i].data).value = b

(***************************************************************************)
(* GcCounter::gc                                                           *)
(***************************************************************************)
\* the cutoff the documentation of gc gives, as a number that may be negative
Cutoff(now) == SlotOf(now) - value_ttl_ms \div gc_slot_duration_ms

\* gc(now) returned and left exactly the slots above Cutoff(now), each with
\* the count it had
GcKeepsLiveSlots(now) ==
    /\ counterPc' = "ready"
    /\ DOMAIN value_lifetimes' = {s \in DOMAIN value_lifetimes : s > Cutoff(now)}
    /\ \A s \in DOMAIN value_lifetimes' : value_lifetimes'[s] = value_lifetimes[s]
    /\ get_count' = SumOver(value_lifetimes,
                            {s \in DOMAIN value_lifetimes : s > Cutoff(now)})

\* Where the subtraction does not go below zero gc does what is written:
\* every call with now/slot >= ttl/slot removes exactly the slots <= the
\* cutoff.
GcExactWithoutUnderflow ==
    [][\A now \in Times :
          Gc(now) /\ Cutoff(now) >= 0 => GcKeepsLiveSlots(now)]_vars

\* C19: every gc(now) removes exactly the slots whose index is
\* <= now/slot_duration - value_ttl/slot_duration and leaves every other
\* slot with its count, so that get_count() afterwards is the sum over the
\* slots that remain.
C19_GcRemovesExpiredSlots ==
    [][\A now \in Times : Gc(now) => GcKeepsLiveSlots(now)]_vars

\* the run of the test: three increments at 0, one decrement, an increment
\* at 10 and gc(100) with ttl = 100 and slot = 10 leave a count of 1
C19_TestRun ==
    /\ value_ttl_ms = TestTtl /\ gc_slot_duration_ms = TestSlot
    /\ incremented = [t \in Times |-> IF t = 0 THEN 3 ELSE IF t = 10 THEN 1 ELSE 0]
    /\ honored = 1
    /\ lastGc = 100
    /\ value_lifetimes = [s \in {1} |-> 1]
    /\ get_count = 1

(***************************************************************************)
(* GcCounter::get_count against the calls made                             *)
(***************************************************************************)
Increments == SumOver(incremented, Times)

\* the increments whose slot lay below the cutoff of the last gc
ExpiredAtLastGc ==
    IF lastGc = NoGc THEN 0
    ELSE SumOver(incremented, {t \in Times : SlotOf(t) < Cutoff(lastGc)})

\* C20 as stated: after every sequence of increment, decrement and gc calls
\* get_count() is the number of increments, less the decrements honored,
\* less the increments whose slot was < now/slot - ttl/slot at the last gc.
C20_CountAsStated ==
    counterPc = "ready" => get_count = Increments - honored - ExpiredAtLastGc

\* C20 amended: after every sequence of calls get_count() is the number of
\* increments, less the decrements honored, less the units the removed
\* slots held at the moment a gc call removed them (all gc calls; a unit a
\* decrement took before is not taken again).
C20_CountConserved ==
    get_count = Increments - honored - collected

\* gc removed a slot that a decrement had lowered before and that still
\* held units, and the counter still counts something
C20_Witness ==
    /\ honored > 0
    /\ collected > 0
    /\ collected < Increments - honored
    /\ get_count > 0
    /\ lastGc # NoGc

(***************************************************************************)
(* GcCounter::decrement                                                    *)
(***************************************************************************)
\* the lowest slot holding a unit
OldestLive == {s \in DOMAIN value_lifetimes :
                  /\ value_lifetimes[s] # 0
                  /\ \A k \in DOMAIN value_lifetimes : value_lifetimes[k] # 0 => s <= k}

\* C21: decrement() changes nothing if and only if get_count() is 0 before
\* the call; otherwise it lowers get_count() by exactly one, the unit being
\* taken from the lowest slot whose count is not zero, every other slot
\* keeping its count.
C21_DecrementTakesOldest ==
    [][Decrement =>
          IF get_count = 0
          THEN value_lifetimes' = value_lifetimes
          ELSE /\ get_count' = get_count - 1
               /\ DOMAIN value_lifetimes' = DOMAIN value_lifetimes
               /\ \E s \in OldestLive :
                     /\ value_lifetimes'[s] = value_lifetimes[s] - 1
                     /\ \A k \in DOMAIN value_lifetimes \ {s} :
                           value_lifetimes'[k] = value_lifetimes[k]]_vars

\* decrement() has emptied the oldest slot and then taken a unit from the
\* next one, a newer slot still holding units
C21_Witness ==
    /\ honored >= 2
    /\ \E s1, s2, s3 \in DOMAIN value_lifetimes :
          /\ s1 < s2 /\ s2 < s3
          /\ value_lifetimes[s1] = 0
          /\ value_lifetimes[s2] = 0
          /\ value_lifetimes[s3] > 0
    /\ collected = 0

(***************************************************************************)
(* Totality of gc                                                          *)
(***************************************************************************)
\* C22: every gc(now), of the counter and of the set, returns without panic
\* for every now >= 0, and for now < value_ttl_ms it removes nothing.
C22_GcIsTotal ==
    [][\A now \in Times :
          /\ Gc(now) =>
                /\ counterPc' = "ready"
                /\ now < value_ttl_ms => value_lifetimes' = value_lifetimes
          /\ SetGc(now) =>
                /\ setPc' = "ready"
                /\ now < value_ttl_ms => set_lifetimes' = set_lifetimes]_vars

(***************************************************************************)
(* GcSet::contains against the calls made                                  *)
(***************************************************************************)
Inserted(v) == lastWrite[v].op = "insert"

\* C23 as stated: after inserts and gc calls, contains(v) is true if and
\* only if the most recent insert(v, t) had t >= now - value_ttl_ms, now
\* being the argument of the most recent gc(now).
C23_ContainsAsStated ==
    \A v \in Values :
        setPc = "ready" /\ setLastGc # NoGc /\ lastWrite[v].op # "remove" =>
            (contains(v) <=>
                Inserted(v) /\ lastWrite[v].t >= setLastGc - value_ttl_ms)

\* every gc(now) that returned since the last insert of v had
\* 0 <= now/slot - ttl/slot < t/slot
KeptSinceInsert(v) ==
    \/ gcSince[v] = NoGcSince
    \/ /\ Cutoff(gcSince[v].lo) >= 0
       /\ Cutoff(gcSince[v].hi) < SlotOf(lastWrite[v].t)

\* C23 amended: contains(v) is true if and only if the last write of v was
\* an insert(v, t) and every gc(now) that returned since that insert had
\* 0 <= now/slot - ttl/slot < t/slot: the slot of t, not t, is compared,
\* and only the gc calls after the insert count.
C23_ContainsIffKept ==
    \A v \in Values : contains(v) <=> Inserted(v) /\ KeptSinceInsert(v)

\* one value was dropped by a gc although it was inserted within
\* value_ttl_ms of that gc; another went through a gc and is still there
C23_Witness ==
    /\ setPc = "ready"
    /\ overflowChecks
    /\ \E v, w \in Values :
          /\ Inserted(v) /\ ~contains(v)
          /\ gcSince[v] # NoGcSince
          /\ lastWrite[v].t > gcSince[v].hi - value_ttl_ms
          /\ Inserted(w) /\ contains(w)
          /\ gcSince[w] # NoGcSince

(***************************************************************************)
(* GcSet::insert slides the TTL                                            *)
(***************************************************************************)
\* some gc that returned since the last insert of v removed slot s
DroppedSince(v, s) ==
    /\ gcSince[v] # NoGcSince
    /\ Cutoff(gcSince[v].lo) < 0 \/ s <= Cutoff(gcSince[v].hi)

\* C24: after insert(v, t1) and then insert(v, t2), t2 > t1, a gc that
\* drops the bucket of t1 and not the bucket of t2 leaves contains(v) true;
\* a value whose insert falls in a dropped bucket has contains(v) false.
C24_InsertSlidesTtl ==
    \A v \in Values :
        Inserted(v) =>
            /\ (/\ slidFrom[v] # -1
                /\ slidFrom[v] < SlotOf(lastWrite[v].t)
                /\ DroppedSince(v, slidFrom[v])
                /\ ~DroppedSince(v, SlotOf(lastWrite[v].t))) => contains(v)
            /\ DroppedSince(v, SlotOf(lastWrite[v].t)) => ~contains(v)

\* the run of the test: insert(1, 0), insert(1, 100), insert(2, 0), gc(100)
\* with ttl = 100 and slot = 10 leave 1 in the set and 2 out of it
C24_Witness ==
    /\ value_ttl_ms = TestTtl /\ gc_slot_duration_ms = TestSlot
    /\ lastWrite[1] = [op |-> "insert", t |-> 100]
    /\ slidFrom[1] = 0
    /\ lastWrite[2] = [op |-> "insert", t |-> 0]
    /\ slidFrom[2] = -1
    /\ gcSince[1] = [lo |-> 100, hi |-> 100]
    /\ gcSince[2] = [lo |-> 100, hi |-> 100]
    /\ setWrites = 3
    /\ contains(1)
    /\ ~contains(2)

(***************************************************************************)
(* Expiry bound of the two containers                                      *)
(***************************************************************************)
\* the times at or before now - value_ttl_ms
ExpiredTimes(now) == {t \in Times : t <= now - value_ttl_ms}

\* C25: immediately after a gc(now) with now >= value_ttl_ms nothing
\* recorded at a time t <= now - value_ttl_ms is observable: the set holds
\* no value whose last insert was at such a t, and the counter has no slot
\* of such a t, so that get_count() is at most the number of increments
\* made at later times.
C25_ExpiryBound ==
    [][\A now \in Times :
          now >= value_ttl_ms =>
             /\ Gc(now) =>
                   /\ counterPc' = "ready"
                   /\ \A t \in ExpiredTimes(now) : SlotOf(t) \notin DOMAIN value_lifetimes'
                   /\ get_count' <= SumOver(incremented, Times \ ExpiredTimes(now))
             /\ SetGc(now) =>
                   /\ setPc' = "ready"
                   /\ \A v \in Values :
                         Inserted(v) /\ lastWrite[v].t \in ExpiredTimes(now) =>
                             ~contains(v)']_vars

\* gc(110) with ttl = 100 has dropped a value inserted at 10 and kept one
\* inserted at 100
C25_Witness ==
    /\ value_ttl_ms = TestTtl
    /\ setLastGc = 110
    /\ \E v, w \in Values :
          /\ lastWrite[v] = [op |-> "insert", t |-> 10]
          /\ gcSince[v] = [lo |-> 110, hi |-> 110]
          /\ ~contains(v)
          /\ lastWrite[w] = [op |-> "insert", t |-> 100]
          /\ gcSince[w] = [lo |-> 110, hi |-> 110]
          /\ contains(w)

(***************************************************************************)
(* GcCounter::get_count and the slots that have expired                    *)
(***************************************************************************)
\* the latest time the caller has passed to the counter: a call of
\* get_count() is made at this time or later
LatestTime ==
    LET passed == {t \in Times : incremented[t] > 0} \cup ({lastGc} \ {NoGc})
    IN  IF passed = {} THEN 0 ELSE CHOOSE t \in passed : \A u \in passed : u <= t

\* C26: at every moment get_count() is the sum of the counts of the slots
\* that have not expired at that moment, whether or not gc has run since
\* the others expired.
C26_CountsLiveSlotsOnly ==
    counterPc = "ready" =>
        get_count = SumOver(value_lifetimes,
                            {s \in DOMAIN value_lifetimes : s > Cutoff(LatestTime)})

(***************************************************************************)
(* tick_write_transactions_to_da: one batch_write per tick                 *)
(***************************************************************************)
\* the batch_write requests issued in tick i
BatchesOfTick(i) == {b \in 1..Len(daBatches) : ticks[i].batch = b}

\* request b carries the serializations of the transactions txs, in order
CarriesExactly(b, txs) ==
    /\ Len(daBatches[b].blobs) = Len(txs)
    /\ \A j \in 1..Len(txs) :
          daBatches[b].blobs[j] = [data |-> JsonEncode([signed |-> txs[j]])]

\* every request belongs to one tick
OneTickPerBatch ==
    \A b \in 1..Len(daBatches) : Cardinality({i \in 1..Len(ticks) : ticks[i].batch = b}) = 1

\* C27 as stated: a tick that received at least one transaction issued
\* exactly one batch_write, with the serializations of exactly these
\* transactions in receive order; a tick that received none issued no
\* batch_write and did not take the client lock.
C27_OneBatchPerTickAsStated ==
    /\ OneTickPerBatch
    /\ \A i \in 1..Len(ticks) :
          IF ticks[i].txs # <<>>
          THEN /\ Cardinality(BatchesOfTick(i)) = 1
               /\ \A b \in BatchesOfTick(i) : CarriesExactly(b, ticks[i].txs)
          ELSE BatchesOfTick(i) = {} /\ ~ticks[i].locked

\* the tick ended in the error of serde_json::to_vec
SerializeFailed(i) == i = Len(ticks) /\ writerPc = "failed_serialize"

\* C27 amended: a tick issues at most one batch_write.  A tick that
\* received at least one transaction and serialized them all issued exactly
\* one, with exactly these serializations in receive order; a tick in which
\* serde_json::to_vec failed issued none and took no lock, the transactions
\* it had received being dropped; a tick that received none issued none and
\* took no lock.
C27_OneBatchPerTick ==
    /\ OneTickPerBatch
    /\ \A i \in 1..Len(ticks) :
          IF ticks[i].txs # <<>> /\ ~SerializeFailed(i)
          THEN /\ Cardinality(BatchesOfTick(i)) = 1
               /\ ticks[i].locked
               /\ \A b \in BatchesOfTick(i) : CarriesExactly(b, ticks[i].txs)
          ELSE BatchesOfTick(i) = {} /\ ~ticks[i].locked

\* an empty tick, then a tick that wrote two transactions in one request
C27_Witness ==
    /\ Len(ticks) >= 2
    /\ ticks[1].txs = <<>>
    /\ Len(ticks[2].txs) = 2
    /\ Len(daBatches) = 1
    /\ daBatches[1].ok
    /\ Len(daBatches[1].blobs) = 2

(***************************************************************************)
(* The 100 ms window of the writer                                         *)
(***************************************************************************)
\* the receive loop is over by the time the window and one more recv
\* timeout have passed
WindowStops == winPc = "recv" => Ms(winClock) <= WindowMs + RecvTimeoutMs

\* C28: no transaction that arrives on the channel more than 100 ms after
\* the tick started is in the tick's batch.
C28_WindowBound ==
    \A i \in 1..Len(winBatch) : Ms(winBatch[i]) <= WindowMs

(***************************************************************************)
(* The read window of the publisher                                        *)
(***************************************************************************)
\* read_blocks is over by the time the building time has passed, and an
\* iteration that read no block submits nothing
ReadStops ==
    /\ readPc = "recv" => readClock * MsPerStep <= BuildingTimeMs
    /\ readPc = "submit" => readBlocks # <<>>

\* C29: read_blocks accumulates blocks for at most building_time_ms / 2
\* from the start of the iteration, and an iteration that collected no
\* block submits nothing.
C29_ReadsForHalfBuildingTime ==
    /\ \A i \in 1..Len(readBlocks) : readBlocks[i] * MsPerStep <= BuildingTimeMs \div 2
    /\ readPc = "submit" => readBlocks # <<>>

(***************************************************************************)
(* Rejected commitment events                                              *)
(***************************************************************************)
\* the step takes a Rejected event from the commitment-event stream
TakesRejected ==
    /\ Len(events') = Len(events) + 1
    /\ events'[Len(events')].kind = "Rejected"

\* C30: taking a Rejected event makes no executor call, leaves the
\* finalized height and all other state of the node as they were, and
\* leaves the event task running for the events that follow.
C30_RejectedOnlyLogged ==
    [][TakesRejected =>
          /\ finalizeCalls' = finalizeCalls
          /\ finalized' = finalized
          /\ executeCalls' = executeCalls
          /\ postCalls' = postCalls
          /\ eventsPc' = "run"
          /\ UNCHANGED <<stream, readerPc, pending, writerVars, executorPc, seqVars>>]_vars

\* a Rejected event was taken first, and the task went on to finalize on
\* the Accepted event that followed it
C30_Witness ==
    /\ Len(events) = 2
    /\ events[1] = [kind |-> "Rejected", height |-> 1]
    /\ events[2] = [kind |-> "Accepted", height |-> 0]
    /\ finalizeCalls = <<0>>
    /\ finalized = 0
    /\ eventsPc = "run"

(***************************************************************************)
(* The DA client lock                                                      *)
(***************************************************************************)
\* C31: the write side of the client lock is held by the reader only while
\* it opens the stream and by the writer only during one batch_write; the
\* reader has released it when it consumes the stream; a task waiting for
\* the lock faces a holder that is not waiting itself and can finish its
\* call, and while the reader consumes the stream a waiting writer can take
\* the lock.
C31_LockDiscipline ==
    /\ lockHolder = "reader" <=> readerLockPc = "opening"
    /\ lockHolder = "writer" <=> writerLockPc = "writing"
    /\ readerLockPc = "want" =>
          \/ ENABLED ReaderAcquires
          \/ ENABLED WriterWrote
    /\ writerLockPc = "want" =>
          \/ ENABLED WriterAcquires
          \/ ENABLED ReaderOpened /\ ENABLED ReaderOpenFails
    /\ readerLockPc = "consuming" /\ writerLockPc = "want" => ENABLED WriterAcquires

\* the reader is consuming its stream, has taken items from it, and the
\* writer holds the lock for a batch_write, not its first
C31_Witness ==
    /\ readerLockPc = "consuming"
    /\ lockItems > 0
    /\ lockHolder = "writer"
    /\ lockWrites > 0

(***************************************************************************)
(* Claims about the consumer and the builder, last part                    *)
(***************************************************************************)
\* a SequencedBlobBlock response whose bytes, or the bytes of one of its
\* transactions, do not decode
Undecodable(resp) == IsSequencedBlobBlock(resp) /\ ~Decodes(resp)

\* C32: a blob whose bytes do not decode is skipped: the consumer has not
\* failed on it and can take the next blob of the stream.
C32_BadBlobSkipped ==
    \A i \in 1..Len(stream) :
        Undecodable(stream[i]) => readerPc \in {"next", "executed", "ended"}

\* C33: the uid values of the ticks of tick_build_blocks are pairwise
\* distinct.
C33_UidsDistinct ==
    \A i, j \in 1..Len(tickLog) : i # j => tickLog[i].uid # tickLog[j].uid

BucketsOf(v) == {s \in DOMAIN set_lifetimes : v \in set_lifetimes[s]}

\* C34: no value is a member of two buckets, and a value whose last write
\* is insert(v, t), with no gc since, is in the bucket t/slot_duration and
\* in no other, whichever bucket held it before.
C34_OneBucketPerValue ==
    \A v \in Values :
        /\ Cardinality(BucketsOf(v)) <= 1
        /\ Inserted(v) /\ gcSince[v] = NoGcSince =>
              BucketsOf(v) = {SlotOf(lastWrite[v].t)}

\* a value was inserted at a time earlier than its previous insert and sits
\* in the older bucket, next to another value in a newer one
C34_Witness ==
    \E v, w \in Values :
        /\ Inserted(v)
        /\ gcSince[v] = NoGcSince
        /\ slidFrom[v] > SlotOf(lastWrite[v].t)
        /\ BucketsOf(v) = {SlotOf(lastWrite[v].t)}
        /\ BucketsOf(w) = {slidFrom[v]}

(***************************************************************************)
(* Minimum lifetime in the two containers                                  *)
(***************************************************************************)
\* q, the whole slots of a TTL
TtlSlots == value_ttl_ms \div gc_slot_duration_ms

\* the times t with now - t < (q - 1) * slot_duration
YoungTimes(now) == {t \in Times : now - t < (TtlSlots - 1) * gc_slot_duration_ms}

\* a gc(now) step that returns keeps what was recorded at the young times:
\* the counter keeps their slots, the set the values last inserted then
KeepsYoung(now) ==
    /\ Gc(now) /\ counterPc' = "ready" =>
          \A t \in YoungTimes(now) :
              SlotOf(t) \in DOMAIN value_lifetimes =>
                  /\ SlotOf(t) \in DOMAIN value_lifetimes'
                  /\ value_lifetimes'[SlotOf(t)] = value_lifetimes[SlotOf(t)]
    /\ SetGc(now) /\ setPc' = "ready" =>
          \A v \in Values :
              Inserted(v) /\ contains(v) /\ lastWrite[v].t \in YoungTimes(now) =>
                  contains(v)'

\* C35: gc(now) never removes an item recorded at a time t with
\* now - t < (q - 1) * slot_duration, q = value_ttl_ms / slot_duration.
C35_MinimumLifetime ==
    [][\A now \in Times : KeepsYoung(now)]_vars

\* the same for the gc calls whose subtraction does not go below zero
MinimumLifetimeWithoutUnderflow ==
    [][\A now \in Times : SlotOf(now) >= TtlSlots => KeepsYoung(now)]_vars

(***************************************************************************)
(* The finalized height follows the latest Accepted event                  *)
(***************************************************************************)
IsAccepted(event) == event.kind = "Accepted"

\* the Accepted events taken so far, in order
AcceptedEvents == SelectSeq(events, IsAccepted)

\* C36: the height last passed to set_finalized_block_height is the height
\* of the most recent Accepted event, whatever the earlier heights were;
\* when that call returned Ok it is the finalized height.
C36_FinalizedIsLatestAccepted ==
    IF AcceptedEvents = <<>>
    THEN finalizeCalls = <<>> /\ finalized = -1
    ELSE /\ finalizeCalls # <<>>
         /\ finalizeCalls[Len(finalizeCalls)] = AcceptedEvents[Len(AcceptedEvents)].height
         /\ eventsPc = "run" => finalized = AcceptedEvents[Len(AcceptedEvents)].height

\* Accepted at height 1, then Accepted at height 0: the finalized height
\* went down to 0
C36_Witness ==
    /\ events = <<[kind |-> "Accepted", height |-> 1], [kind |-> "Accepted", height |-> 0]>>
    /\ finalizeCalls = <<1, 0>>
    /\ finalized = 0
    /\ eventsPc = "run"

(***************************************************************************)
(* The end of the DA stream                                                *)
(***************************************************************************)
\* C37: when the DA stream has ended without an error, read_blocks_from_da
\* has returned Ok and stays returned: run_executor goes on for as long as
\* the writer has not failed, the writer can make its next tick, and no
\* further block is executed and no further commitment posted.
C37_StreamEndIsNotAFailure ==
    [][/\ readerPc' = "ended" /\ writerPc' = "run" => executorPc' = "running"
       /\ readerPc = "ended" /\ writerPc = "run" /\ Len(ticks) < MaxTicks => ENABLED WriterTick
       /\ readerPc = "ended" =>
             /\ readerPc' = "ended"
             /\ stream' = stream
             /\ executeCalls' = executeCalls
             /\ postCalls' = postCalls]_vars

\* the stream ended after a block was executed and posted; the writer has
\* written a batch and run_executor is still running
C37_Witness ==
    /\ readerPc = "ended"
    /\ Len(postCalls) = 1
    /\ writerPc = "run"
    /\ daBatches # <<>>
    /\ executorPc = "running"

(***************************************************************************)
(* Transactions of a failed batch_write                                    *)
(***************************************************************************)
\* the transactions a batch_write request carries
TxsOfBatch(b) == {daBatches[b].blobs[i].data.value.signed : i \in 1..Len(daBatches[b].blobs)}

\* the transactions the writer has taken from the channel
TakenTxs == UNION {Range(ticks[i].txs) : i \in 1..Len(ticks)}

\* C38: a transaction taken from the channel is in at most one batch_write
\* request and is not in the channel again; a batch_write that returned an
\* error is the writer's last, the writer loop and run_executor have ended
\* with it, and its transactions are not in the channel.
C38_TakenOnceNeverPutBack ==
    /\ \A a, b \in 1..Len(daBatches) : a # b => TxsOfBatch(a) \cap TxsOfBatch(b) = {}
    /\ \A b \in 1..Len(daBatches) : Cardinality(TxsOfBatch(b)) = Len(daBatches[b].blobs)
    /\ TakenTxs \cap Range(txChannel) = {}
    /\ \A b \in 1..Len(daBatches) :
          /\ TxsOfBatch(b) \subseteq TakenTxs
          /\ ~daBatches[b].ok =>
                /\ b = Len(daBatches)
                /\ writerPc = "failed_write"
                /\ executorPc = "failed"
                /\ ticks[Len(ticks)].batch = b

\* the batch_write of the first transaction failed; the second transaction,
\* not received in that window, is still in the channel and the first is not
C38_Witness ==
    /\ Len(daBatches) = 1
    /\ ~daBatches[1].ok
    /\ TxsOfBatch(1) = {1}
    /\ txChannel = <<2>>
    /\ writerPc = "failed_write"

(***************************************************************************)
(* to_sequenced_blob_block                                                 *)
(***************************************************************************)
\* C39: to_sequenced_blob_block maps a PassedThroughBlob or a
\* SequencedBlobBlock response to a SequencedBlobBlock response with the
\* same blob_id, data, height and timestamp, returns an error for a
\* SequencedBlobIntent response and for one without a blob type, and
\* applied to its own Ok result returns that result again.
C39_ToSequencedBlobBlock ==
    /\ sequenced # NotCalled =>
          IF /\ blob_response.blob_type.some
             /\ blob_response.blob_type.variant \in {"PassedThroughBlob", "SequencedBlobBlock"}
          THEN /\ sequenced.ok
               /\ sequenced.value.blob_type.some
               /\ sequenced.value.blob_type.variant = "SequencedBlobBlock"
               /\ \A field \in {"blob_id", "data", "height", "timestamp"} :
                     sequenced.value.blob_type.blob[field] = blob_response.blob_type.blob[field]
          ELSE ~sequenced.ok /\ sequenced.error \in {"No blob type", "Invalid blob type"}
    /\ resequenced # NotCalled => resequenced = sequenced

\* a PassedThroughBlob response with fields that differ from one another was
\* converted, and the result converted again
C39_Witness ==
    /\ blob_response.blob_type.some
    /\ blob_response.blob_type.variant = "PassedThroughBlob"
    /\ blob_response.blob_type.blob.height = 1
    /\ blob_response.blob_type.blob.timestamp = 0
    /\ sequenced.ok
    /\ resequenced.ok

====
